---- MODULE Spec2Model ----
\* Monthly dues ledger of the lodge treasury page (src/src/pages/Treasury.tsx)
\* over the monthly_payments table (src/unnamed/part_000).
\*
\* Amounts are whole currency units.  A row key is the tuple
\* <<member_id, month, year>>: the code's key is the string
\* `${member_id}-${month}-${year}` with a fixed-length UUID as member_id, so
\* two keys are equal exactly when the three parts are equal.
\* 0 stands for SQL NULL / JS null in the numeric columns (paid_at,
\* receipt_url, quick_pay_group_id), "null" in the text column notes.
EXTENDS Integers, Sequences, FiniteSets, TLC

\* ---------------------------------------------------------------- bounds
memberFee == 2
MaxAmount == 5
MaxOps == 2
\* Length of the text of a member id (36 in the database).
UuidLen == 2

\* ----------------------------------------------------- program constants
FiscalMonths == 12
QuickPayPaidMonths == 11
FirstHalfMonths == 6
FiscalStartMonth == 7
SecondHalfShift == 5
currentCalendarYear == 2026
nextCalendarYear == currentCalendarYear + 1

Members == {1, 2}
Sessions == {1, 2}
MonthIndexes == 0 .. (FiscalMonths - 1)

Min(a, b) == IF a < b THEN a ELSE b
Max(a, b) == IF a > b THEN a ELSE b

RECURSIVE SumSeq(_)
SumSeq(q) == IF q = <<>> THEN 0 ELSE Head(q) + SumSeq(Tail(q))

\* JS `undefined` for a missing map entry / optional field.
undefined == [id |-> 0]

\* ------------------------------------------------------- fiscal calendar
\* getMonthYear that stays in the current calendar year.
getMonthYearSameYear(monthIndex) ==
  [month |-> IF monthIndex < FirstHalfMonths THEN monthIndex + FiscalStartMonth
                                              ELSE monthIndex - SecondHalfShift,
   year  |-> currentCalendarYear]

getMonthYear(monthIndex) ==
  [month |-> IF monthIndex < FirstHalfMonths THEN monthIndex + FiscalStartMonth
                                              ELSE monthIndex - SecondHalfShift,
   year  |-> IF monthIndex < FirstHalfMonths THEN currentCalendarYear
                                              ELSE nextCalendarYear]

getPaymentKey(memberId, monthIndex) ==
  LET year  == IF monthIndex < FirstHalfMonths THEN currentCalendarYear ELSE nextCalendarYear
      month == IF monthIndex < FirstHalfMonths THEN monthIndex + FiscalStartMonth
                                               ELSE monthIndex - SecondHalfShift
  IN <<memberId, month, year>>

\* Key of a stored row, as loadData derives it.
RowKey(p) == <<p.member_id, p.month, p.year>>

\* payments[key] of a session's map; undefined when the key is absent.
Lookup(pmap, key) == IF key \in DOMAIN pmap THEN pmap[key] ELSE undefined

\* allFM of handleSavePayment: the 12 fiscal slots of a member, index i at i+1.
allFM(memberId) ==
  [j \in 1 .. FiscalMonths |->
     [monthIndex |-> j - 1,
      month |-> getMonthYear(j - 1).month,
      year  |-> getMonthYear(j - 1).year,
      key   |-> <<memberId, getMonthYear(j - 1).month, getMonthYear(j - 1).year>>]]

\* --------------------------------------------------- payment allocator
\* FillLoop without `rem -= apply`.
RECURSIVE FillLoopKeepsRem(_, _, _, _, _, _)
FillLoopKeepsRem(pmap, memberId, fee, lo, hi, rem) ==
  IF ~(lo < hi /\ rem > 0) THEN [rem |-> rem, updates |-> <<>>]
  ELSE
    LET fm == allFM(memberId)[lo + 1]
        ex == Lookup(pmap, fm.key)
        exAmt == IF ex = undefined THEN 0 ELSE ex.amount
        skip == \/ (ex # undefined /\ ex.payment_type = "pronto_pago_benefit")
                \/ (ex # undefined /\ ex.amount >= fee)
        deficit == fee - exAmt
    IN IF skip \/ deficit <= 0
       THEN FillLoopKeepsRem(pmap, memberId, fee, lo + 1, hi, rem)
       ELSE LET apply == Min(rem, deficit)
                rest == FillLoopKeepsRem(pmap, memberId, fee, lo + 1, hi, rem)
            IN [rem |-> rest.rem,
                updates |-> <<[key |-> fm.key, month |-> fm.month, year |-> fm.year,
                               newAmt |-> exAmt + apply, existing |-> ex]>>
                            \o rest.updates]

\* FillLoop without the skip of pronto_pago_benefit entries.
RECURSIVE FillLoopNoBenefitSkip(_, _, _, _, _, _)
FillLoopNoBenefitSkip(pmap, memberId, fee, lo, hi, rem) ==
  IF ~(lo < hi /\ rem > 0) THEN [rem |-> rem, updates |-> <<>>]
  ELSE
    LET fm == allFM(memberId)[lo + 1]
        ex == Lookup(pmap, fm.key)
        exAmt == IF ex = undefined THEN 0 ELSE ex.amount
        skip == ex # undefined /\ ex.amount >= fee
        deficit == fee - exAmt
    IN IF skip \/ deficit <= 0
       THEN FillLoopNoBenefitSkip(pmap, memberId, fee, lo + 1, hi, rem)
       ELSE LET apply == Min(rem, deficit)
                rest == FillLoopNoBenefitSkip(pmap, memberId, fee, lo + 1, hi, rem - apply)
            IN [rem |-> rest.rem,
                updates |-> <<[key |-> fm.key, month |-> fm.month, year |-> fm.year,
                               newAmt |-> exAmt + apply, existing |-> ex]>>
                            \o rest.updates]

\* One of the two scanning loops of handleSavePayment (backfill i = 0..selIdx-1,
\* overflow i = selIdx+1..11): visits indexes lo..hi-1 while rem > 0.  fee is
\* settings.monthly_fee_base as the handler read it.
RECURSIVE FillLoop(_, _, _, _, _, _)
FillLoop(pmap, memberId, fee, lo, hi, rem) ==
  IF ~(lo < hi /\ rem > 0) THEN [rem |-> rem, updates |-> <<>>]
  ELSE
    LET fm == allFM(memberId)[lo + 1]
        ex == Lookup(pmap, fm.key)
        exAmt == IF ex = undefined THEN 0 ELSE ex.amount
        skip == \/ (ex # undefined /\ ex.payment_type = "pronto_pago_benefit")
                \/ (ex # undefined /\ ex.amount >= fee)
        deficit == fee - exAmt
    IN IF skip \/ deficit <= 0
       THEN FillLoop(pmap, memberId, fee, lo + 1, hi, rem)
       ELSE LET apply == Min(rem, deficit)
                rest == FillLoop(pmap, memberId, fee, lo + 1, hi, rem - apply)
            IN [rem |-> rest.rem,
                updates |-> <<[key |-> fm.key, month |-> fm.month, year |-> fm.year,
                               newAmt |-> exAmt + apply, existing |-> ex]>>
                            \o rest.updates]

\* SelectedStep without the cap at the fee: the whole remainder goes to the target.
SelectedStepNoCap(memberId, fee, selIdx, rem) ==
  IF rem > 0
  THEN [rem |-> 0,
        updates |-> <<[key |-> allFM(memberId)[selIdx + 1].key,
                       month |-> getMonthYear(selIdx).month,
                       year |-> getMonthYear(selIdx).year,
                       newAmt |-> rem, existing |-> undefined]>>]
  ELSE [rem |-> rem, updates |-> <<>>]

\* The target step: min(rem, fee) on the selected month, no `existing`.
SelectedStep(memberId, fee, selIdx, rem) ==
  IF rem > 0
  THEN LET apply == Min(rem, fee)
       IN [rem |-> rem - apply,
           updates |-> <<[key |-> allFM(memberId)[selIdx + 1].key,
                          month |-> getMonthYear(selIdx).month,
                          year |-> getMonthYear(selIdx).year,
                          newAmt |-> apply, existing |-> undefined]>>]
  ELSE [rem |-> rem, updates |-> <<>>]

\* ComputeUpdates with the selected month served before the older months.
ComputeUpdatesTargetFirst(pmap, memberId, fee, selIdx, parsedAmount) ==
  LET sel  == SelectedStep(memberId, fee, selIdx, parsedAmount)
      back == FillLoop(pmap, memberId, fee, 0, selIdx, sel.rem)
      over == FillLoop(pmap, memberId, fee, selIdx + 1, FiscalMonths, back.rem)
  IN [updates |-> sel.updates \o back.updates \o over.updates, rem |-> over.rem]

\* The `updates` list built by the NEW-payment branch of handleSavePayment.
ComputeUpdates(pmap, memberId, fee, selIdx, parsedAmount) ==
  LET back == FillLoop(pmap, memberId, fee, 0, selIdx, parsedAmount)
      sel  == SelectedStep(memberId, fee, selIdx, back.rem)
      over == FillLoop(pmap, memberId, fee, selIdx + 1, FiscalMonths, sel.rem)
  IN [updates |-> back.updates \o sel.updates \o over.updates, rem |-> over.rem]


\* ------------------------------------------------ the monthly_payments table
\* UniqueViolation that compares the new rows with each other only, not with
\* the rows the table already holds.
UniqueViolationAmongNewRows(table, rows) ==
  \E j, k \in 1 .. Len(rows) :
    j # k /\ <<rows[j].member_id, rows[j].month, rows[j].year>>
             = <<rows[k].member_id, rows[k].month, rows[k].year>>

\* UniqueViolation that looks at the first row of the statement only.
UniqueViolationFirstRowOnly(table, rows) ==
  Len(rows) > 0 /\ \E r \in table :
    <<r.member_id, r.month, r.year>> = <<rows[1].member_id, rows[1].month, rows[1].year>>

\* UNIQUE(member_id, month, year): an INSERT statement is rejected as a whole
\* when one of its rows has the key of a stored row or of another of its rows.
UniqueViolation(table, rows) ==
  \/ \E j \in 1 .. Len(rows) : \E r \in table : RowKey(r) = RowKey(rows[j])
  \/ \E j, k \in 1 .. Len(rows) : j < k /\ RowKey(rows[j]) = RowKey(rows[k])

\* Rows as stored by a successful INSERT: each gets a fresh primary key.
InsertedRows(rows, firstId) ==
  { [id |-> firstId + j - 1,
     member_id |-> rows[j].member_id, month |-> rows[j].month, year |-> rows[j].year,
     amount |-> rows[j].amount, paid_at |-> rows[j].paid_at,
     receipt_url |-> rows[j].receipt_url,
     quick_pay_group_id |-> rows[j].quick_pay_group_id,
     payment_type |-> rows[j].payment_type, notes |-> rows[j].notes]
    : j \in 1 .. Len(rows) }

\* InsertResult of an upsert: a new row replaces the stored row of its key.
InsertResultUpsert(table, rows, firstId) ==
  [error |-> FALSE,
   table |-> { r \in table : \A j \in 1 .. Len(rows) :
                 <<r.member_id, r.month, r.year>>
                   # <<rows[j].member_id, rows[j].month, rows[j].year>> }
             \cup InsertedRows(rows, firstId)]

\* InsertResult of INSERT ... ON CONFLICT DO NOTHING: a row whose key is taken
\* is skipped without an error.
InsertResultIgnoring(table, rows, firstId) ==
  IF UniqueViolation(table, rows)
  THEN [error |-> FALSE, table |-> table]
  ELSE [error |-> FALSE, table |-> table \cup InsertedRows(rows, firstId)]

\* supabase.from('monthly_payments').insert(rows): the table afterwards and
\* whether the statement failed.
InsertResult(table, rows, firstId) ==
  IF UniqueViolation(table, rows)
  THEN [error |-> TRUE, table |-> table]
  ELSE [error |-> FALSE, table |-> table \cup InsertedRows(rows, firstId)]

\* UPDATE ... WHERE id = rowId with the edit branch's paymentData.
EditRow(r, parsedAmount, date, receiptUrl, notes) ==
  [r EXCEPT !.amount = parsedAmount, !.paid_at = date, !.receipt_url = receiptUrl,
            !.payment_type = "regular", !.notes = notes]

\* TopUpRow that writes the whole payload pd, payment_type included.
TopUpRowRetyping(r, newAmt, date, receiptUrl, notes) ==
  [r EXCEPT !.amount = newAmt, !.paid_at = date, !.receipt_url = receiptUrl,
            !.payment_type = "regular", !.notes = notes]

\* TopUpRow that never lowers a stored amount.
TopUpRowNeverLower(r, newAmt, date, receiptUrl, notes) ==
  [r EXCEPT !.amount = IF r.amount > newAmt THEN r.amount ELSE newAmt,
            !.paid_at = date, !.receipt_url = receiptUrl, !.notes = notes]

\* TopUpRow that stores the money applied instead of the resulting amount.
TopUpRowApplied(r, newAmt, date, receiptUrl, notes) ==
  [r EXCEPT !.amount = newAmt - r.amount, !.paid_at = date,
            !.receipt_url = receiptUrl, !.notes = notes]

\* UPDATE ... WHERE id = rowId issued for a plan slot that has `existing`.
TopUpRow(r, newAmt, date, receiptUrl, notes) ==
  [r EXCEPT !.amount = newAmt, !.paid_at = date, !.receipt_url = receiptUrl,
            !.notes = notes]

\* UpdateWhereId that matches on the member of the row instead of its id.
UpdateWhereMember(table, rowId, parsedAmount, date, receiptUrl, notes) ==
  { IF \E t \in table : t.id = rowId /\ t.member_id = r.member_id
    THEN EditRow(r, parsedAmount, date, receiptUrl, notes) ELSE r
    : r \in table }

\* .update(paymentData).eq('id', rowId) of the edit branch: the table afterwards.
UpdateWhereId(table, rowId, parsedAmount, date, receiptUrl, notes) ==
  { IF r.id = rowId THEN EditRow(r, parsedAmount, date, receiptUrl, notes) ELSE r
    : r \in table }

\* The payments map loadData builds from the rows of a select.
PaymentsMap(table) ==
  [k \in {RowKey(r) : r \in table} |-> CHOOSE r \in table : RowKey(r) = k]

\* newPayments[key] = row
MapPut(pmap, key, row) ==
  [k \in DOMAIN pmap \cup {key} |-> IF k = key THEN row ELSE pmap[k]]

\* ------------------------------------------------------------ dashboard
\* totalAdeudado that subtracts what a month was paid above the fee.
totalAdeudadoSigned(pmap, memberId, fee) ==
  SumSeq([j \in 1 .. FiscalMonths |->
            LET payment == Lookup(pmap, getPaymentKey(memberId, j - 1))
            IN IF payment = undefined THEN fee
               ELSE IF payment.payment_type # "pronto_pago_benefit"
                    THEN fee - payment.amount
               ELSE 0])

\* totalAdeudado[member.id]: the outstanding amount of the 12 fiscal months.
totalAdeudado(pmap, memberId, fee) ==
  SumSeq([j \in 1 .. FiscalMonths |->
            LET payment == Lookup(pmap, getPaymentKey(memberId, j - 1))
            IN IF payment = undefined THEN fee
               ELSE IF payment.payment_type # "pronto_pago_benefit" /\ payment.amount < fee
                    THEN fee - payment.amount
               ELSE 0])

\* Sum of the amounts of the map entries under the given keys.
RECURSIVE SumAmounts(_, _)
SumAmounts(pmap, keys) ==
  IF keys = {} THEN 0
  ELSE LET k == CHOOSE x \in keys : TRUE
       IN pmap[k].amount + SumAmounts(pmap, keys \ {k})

\* Texts are sequences of character codes: a decimal digit is its value,
\* Dash is '-'.
Dash == 0 - 1

\* The decimal text of a number.
RECURSIVE Digits(_)
Digits(n) == IF n < 10 THEN <<n>> ELSE Digits(n \div 10) \o <<n % 10>>

\* The text of a member id: ids are UUIDs, texts of one fixed length.
IdText(memberId) == [j \in 1 .. UuidLen |-> IF j = UuidLen THEN memberId ELSE 1]

\* `${member_id}-${month}-${year}`, the text the page uses as map key.
KeyText(k) == IdText(k[1]) \o <<Dash>> \o Digits(k[2]) \o <<Dash>> \o Digits(k[3])

\* key.startsWith(prefix)
StartsWith(text, prefix) ==
  Len(prefix) <= Len(text) /\ SubSeq(text, 1, Len(prefix)) = prefix

\* accumulatedTotal that sums the entries of every member.
accumulatedTotalEveryMember(pmap, memberId) ==
  SumAmounts(pmap, { k \in DOMAIN pmap : pmap[k].payment_type # "pronto_pago_benefit" })

\* accumulatedTotal of a member's row: every map entry whose key starts with
\* the member id and that is not a pronto_pago_benefit entry.
accumulatedTotal(pmap, memberId) ==
  SumAmounts(pmap, { k \in DOMAIN pmap :
                       /\ StartsWith(KeyText(k), IdText(memberId))
                       /\ pmap[k].payment_type # "pronto_pago_benefit" })

\* ------------------------------------------------------------------ state
VARIABLES
  store,            \* rows of public.monthly_payments
  nextId,           \* next primary key gen_random_uuid() hands out
  ops,              \* handler invocations so far (save, quick-pay, advance-pay)
  payments,         \* per session: the React state `payments`
  selectedPayment,  \* per session: the open single-payment dialog, or NoSelection
  save,             \* per session: the running NEW-payment save, or Idle
  last,             \* the handler run that ended last: its session and inputs,
                    \* the toast it showed, the external calls it issued in order
  receipts          \* the receipt-number service: the clock, the counter table
                    \* and the numbers handed out so far, in order

vars == <<store, nextId, ops, payments, selectedPayment, save, last, receipts>>

NoSelection == [memberId |-> 0]

\* The receipt data a handler hands to the receipt generator
\* (setPendingReceiptData / setLastReceiptData), or none.
NoReceipt == [issued |-> FALSE, totalAmount |-> 0, amountPaid |-> 0, remaining |-> 0]
Receipt(totalAmount, amountPaid, remaining) ==
  [issued |-> TRUE, totalAmount |-> totalAmount, amountPaid |-> amountPaid,
   remaining |-> remaining]

NoRun == [session |-> 0, handler |-> "none", member |-> 0, amount |-> 0,
          cells |-> {}, toast |-> "none", calls |-> <<>>, receipt |-> NoReceipt]
Idle == [pc |-> "idle"]

\* parseFloat of the text of an amount field is a number or NaN.  NaN is kept
\* apart from every number the model lets the user type; it is falsy like 0
\* and every comparison with it is false.
NaN == 0 - 1000
Falsy(x) == x = NaN \/ x = 0
AtMostZero(x) == x # NaN /\ x <= 0

\* parseFloat(amount) || 0
OrZero(x) == IF Falsy(x) THEN 0 ELSE x

\* -------------------------------------------------- distribution preview
\* distributionInfo === null
NoPreview == <<>>

\* One line of the preview: the month it names, the amount it prints, whether
\* a "+" precedes the amount, and the label after it.
PreviewLine(month, year, plus, shown, label) ==
  [month |-> month, year |-> year, plus |-> plus, shown |-> shown, label |-> label]

\* The two for-loops of distributionInfo (before the selected month:
\* overflow = FALSE, after it: overflow = TRUE), visiting lo..hi-1 while
\* rem > 0.
RECURSIVE PreviewLoop(_, _, _, _, _, _, _)
PreviewLoop(pmap, memberId, fee, lo, hi, rem, overflow) ==
  IF ~(lo < hi /\ rem > 0) THEN [rem |-> rem, affected |-> <<>>]
  ELSE
    LET my == getMonthYear(lo)
        ex == Lookup(pmap, <<memberId, my.month, my.year>>)
        exAmt == IF ex = undefined THEN 0 ELSE ex.amount
        skip == \/ (ex # undefined /\ ex.payment_type = "pronto_pago_benefit")
                \/ (ex # undefined /\ ex.amount >= fee)
    IN IF skip \/ ~(fee - exAmt > 0)
       THEN PreviewLoop(pmap, memberId, fee, lo + 1, hi, rem, overflow)
       ELSE LET a == Min(rem, fee - exAmt)
                rest == PreviewLoop(pmap, memberId, fee, lo + 1, hi, rem - a, overflow)
                line == IF overflow
                        THEN PreviewLine(my.month, my.year, FALSE, exAmt + a, "(excedente)")
                        ELSE PreviewLine(my.month, my.year, TRUE, a, "(completar)")
            IN [rem |-> rest.rem, affected |-> <<line>> \o rest.affected]

\* The array `affected` distributionInfo builds for a dialog on an empty month.
PreviewAffected(sel, pmap, fee, parsedAmt) ==
  LET back == PreviewLoop(pmap, sel.memberId, fee, 0, sel.monthIndex, parsedAmt, FALSE)
      a == Min(back.rem, fee)
      target == IF back.rem > 0
                THEN <<PreviewLine(sel.month, sel.year, FALSE, a, "")>> ELSE <<>>
      rem == IF back.rem > 0 THEN back.rem - a ELSE back.rem
      over == PreviewLoop(pmap, sel.memberId, fee, sel.monthIndex + 1, FiscalMonths, rem, TRUE)
  IN back.affected \o target \o over.affected

\* distributionInfo that is shown for a single month too.
distributionInfoAlways(sel, pmap, fee, amount) ==
  IF sel = NoSelection \/ sel.payment # undefined THEN NoPreview
  ELSE IF OrZero(amount) <= 0 THEN NoPreview
  ELSE PreviewAffected(sel, pmap, fee, OrZero(amount))

\* The useMemo distributionInfo: the lines of the preview, or null.
distributionInfo(sel, pmap, fee, amount) ==
  IF sel = NoSelection \/ sel.payment # undefined THEN NoPreview
  ELSE IF OrZero(amount) <= 0 THEN NoPreview
  ELSE LET affected == PreviewAffected(sel, pmap, fee, OrZero(amount))
       IN IF Len(affected) > 1 THEN affected ELSE NoPreview

\* What the user typed besides the amount: note text, whether a receipt file
\* and a second receipt file are attached.
Forms ==
  { [notes |-> "", receiptFile |-> FALSE, secondReceiptFile |-> FALSE],
    [notes |-> "nota", receiptFile |-> TRUE, secondReceiptFile |-> TRUE] }

\* notes || null
NotesOrNull(notes) == IF notes = "" THEN "null" ELSE notes

\* Tokens that are fresh for every handler invocation (op is its number):
\* the date typed in the dialog, the URLs uploadReceipt returns, and
\* crypto.randomUUID().
DateOf(op) == op
UrlOf(op) == 2 * op - 1
SecondUrlOf(op) == 2 * op
GroupOf(op) == op

\* ----------------------------------------------------- receipt numbering
ReceiptModulus == 10000000
CounterDigits == 5
Modules == {"treasury", "extraordinary", "degree"}
Deployments == {"counter", "clock"}

\* CASE p_module ... END CASE
ReceiptPrefix(p_module) ==
  CASE p_module = "treasury" -> "TSR"
    [] p_module = "extraordinary" -> "EXT"
    [] p_module = "degree" -> "GRD"
    [] OTHER -> "REC"

RECURSIVE Pow10(_)
Pow10(n) == IF n = 0 THEN 1 ELSE 10 * Pow10(n - 1)

\* LPAD(n::text, width, '0') read back as a number: a text longer than width
\* is cut to its first width characters.
RECURSIVE Lpad(_, _)
Lpad(n, width) == IF n < Pow10(width) THEN n ELSE Lpad(n \div 10, width)

\* A receipt number: its prefix, whether a dash follows, the year printed in
\* it (0 when none is) and its digits.
ReceiptText(prefix, dash, year, number) ==
  [prefix |-> prefix, dash |-> dash, year |-> year, number |-> number]

\* get_next_receipt_number as the last migration defines it: the digits are
\* the millisecond clock modulo 10000000.
get_next_receipt_number(p_module, now) ==
  ReceiptText(ReceiptPrefix(p_module), TRUE, 0, Lpad(now % ReceiptModulus, 7))

\* get_next_receipt_number as the counter version defines it: upsert and
\* increment the row of the module, print the year and the new last_number.
get_next_receipt_number_counter(p_module, counter) ==
  [counter |-> [counter EXCEPT ![p_module] = @ + 1],
   text |-> ReceiptText(ReceiptPrefix(p_module), TRUE, currentCalendarYear,
                        Lpad(counter[p_module] + 1, CounterDigits))]

\* The catch branch of getNextReceiptNumber: prefix and the last 7 digits of
\* the browser's clock.
FallbackReceiptNumber(module, now) ==
  ReceiptText(ReceiptPrefix(module), FALSE, 0, now % ReceiptModulus)

NoReceipts ==
  [deployed |-> "clock", now |-> 0, elapsed |-> 0,
   counter |-> [m \in Modules |-> 0], issued |-> <<>>]

Init ==
  /\ store = {}
  /\ nextId = 1
  /\ ops = 0
  /\ payments = [s \in Sessions |-> PaymentsMap({})]
  /\ selectedPayment = [s \in Sessions |-> NoSelection]
  /\ save = [s \in Sessions |-> Idle]
  /\ last = NoRun
  /\ receipts = NoReceipts

\* ---------------------------------------------------------------- actions
\* loadData: the page reads all rows and replaces its map.  It runs on mount
\* (a reload of the page) and, called without await, after a quick-pay, an
\* advance-pay or a failed save; its select may be served at any later time.
loadData(s) ==
  /\ payments[s] # PaymentsMap(store)
  /\ payments' = [payments EXCEPT ![s] = PaymentsMap(store)]
  /\ UNCHANGED <<store, nextId, ops, selectedPayment, save, last, receipts>>

\* handleCellClick that creates an empty entry for a month that has none.
handleCellClickCreating(s, m, monthIndex) ==
  LET my == getMonthYear(monthIndex)
      blank == [member_id |-> m, month |-> my.month, year |-> my.year, amount |-> 0,
                paid_at |-> 0, receipt_url |-> 0, quick_pay_group_id |-> 0,
                payment_type |-> "regular", notes |-> "null"]
      inserted == InsertResult(store, <<blank>>, nextId)
  IN
  /\ save[s].pc = "idle"
  /\ selectedPayment[s] = NoSelection
  /\ selectedPayment' = [selectedPayment EXCEPT ![s] =
       [memberId |-> m, monthIndex |-> monthIndex,
        month |-> my.month, year |-> my.year,
        payment |-> Lookup(payments[s], getPaymentKey(m, monthIndex))]]
  /\ store' = IF inserted.error THEN store ELSE inserted.table
  /\ nextId' = IF inserted.error THEN nextId ELSE nextId + 1
  /\ UNCHANGED <<ops, payments, save, last, receipts>>

\* A click on a cell of the grid opens the single-payment dialog on it.
handleCellClick(s, m, monthIndex) ==
  /\ save[s].pc = "idle"
  /\ selectedPayment[s] = NoSelection
  /\ selectedPayment' = [selectedPayment EXCEPT ![s] =
       [memberId |-> m, monthIndex |-> monthIndex,
        month |-> getMonthYear(monthIndex).month,
        year |-> getMonthYear(monthIndex).year,
        payment |-> Lookup(payments[s], getPaymentKey(m, monthIndex))]]
  /\ UNCHANGED <<store, nextId, ops, payments, save, last, receipts>>

\* onOpenChange / Cancelar of the single-payment dialog.
closeDialog(s) ==
  /\ save[s].pc = "idle"
  /\ selectedPayment[s] # NoSelection
  /\ selectedPayment' = [selectedPayment EXCEPT ![s] = NoSelection]
  /\ UNCHANGED <<store, nextId, ops, payments, save, last, receipts>>


\* One entry of a call log.
Call(name, arg) == [call |-> name, arg |-> arg]

\* await uploadReceipt(file, folder), when a file is attached.
UploadCalls(hasFile) == IF hasFile THEN <<Call("upload", 0)>> ELSE <<>>

\* What a handler run leaves behind when it returns: m the member, amt the
\* parsed amount, cells the fiscal indexes it was invoked on.
Ended(s, handler, m, amt, cells, title, callLog) ==
  [session |-> s, handler |-> handler, member |-> m, amount |-> amt,
   cells |-> cells, toast |-> title, calls |-> callLog, receipt |-> NoReceipt]

\* The same for a run that also set the receipt data.
EndedWithReceipt(s, handler, m, amt, cells, title, callLog, receipt) ==
  [Ended(s, handler, m, amt, cells, title, callLog) EXCEPT !.receipt = receipt]

\* Guardar: handleSavePayment up to its first ledger write.  parsed is
\* parseFloat(amount), form the other dialog fields.
handleSavePayment(s, parsed, form) ==
  LET sel == selectedPayment[s]
      amt == OrZero(parsed)
      op == ops + 1
      date == DateOf(op)
      memberId == sel.memberId
  IN
  /\ sel # NoSelection
  /\ save[s].pc = "idle"
  /\ ops < MaxOps
  /\ ops' = op
  /\ UNCHANGED receipts
  /\ IF sel.payment # undefined
     THEN \* EDITING existing payment - simple update, no distribution
       LET receiptUrl == IF form.receiptFile THEN UrlOf(op) ELSE sel.payment.receipt_url
           key == <<memberId, sel.month, sel.year>>
           notes == NotesOrNull(form.notes)
       IN /\ payments' = [payments EXCEPT ![s] =
                 MapPut(payments[s], key, EditRow(sel.payment, amt, date, receiptUrl, notes))]
          /\ store' = UpdateWhereId(store, sel.payment.id, amt, date, receiptUrl, notes)
          /\ last' = EndedWithReceipt(s, "edit", memberId, amt, {sel.monthIndex},
                           "Pago actualizado correctamente",
                           UploadCalls(form.receiptFile) \o <<Call("update", sel.payment.id)>>,
                           Receipt(memberFee, amt,
                                   IF amt < memberFee THEN memberFee - amt ELSE 0))
          /\ UNCHANGED <<nextId, selectedPayment, save>>
     ELSE \* NEW payment - apply distribution logic
       LET updates == ComputeUpdates(payments[s], memberId, memberFee, sel.monthIndex, amt).updates
           receiptUrl == IF form.receiptFile THEN UrlOf(op) ELSE 0
           second == form.secondReceiptFile /\ Len(updates) > 1
           secondUrl == IF second THEN SecondUrlOf(op) ELSE 0
           uploads == UploadCalls(form.receiptFile) \o UploadCalls(second)
       IN /\ IF updates = <<>>
             THEN /\ last' = EndedWithReceipt(s, "save", memberId, amt, {sel.monthIndex},
                                   "Pago guardado correctamente", uploads,
                                   Receipt(amt, amt, 0))
                  /\ UNCHANGED save
             ELSE /\ save' = [save EXCEPT ![s] =
                       [pc |-> "writing", updates |-> updates, pos |-> 1,
                        newPayments |-> payments[s], snapshot |-> payments[s],
                        parsedAmount |-> amt, memberId |-> memberId,
                        monthIndex |-> sel.monthIndex,
                        month |-> sel.month, year |-> sel.year, date |-> date,
                        receiptUrl |-> receiptUrl, secondUrl |-> secondUrl,
                        notes |-> form.notes, calls |-> uploads]]
                  /\ UNCHANGED last
          /\ UNCHANGED <<store, nextId, payments, selectedPayment>>

\* The row payload `pd` of one plan slot.
PlanRow(sv, u) ==
  LET isSel == u.month = sv.month /\ u.year = sv.year
  IN [member_id |-> sv.memberId, month |-> u.month, year |-> u.year,
      amount |-> u.newAmt, paid_at |-> sv.date,
      receipt_url |-> IF isSel THEN sv.receiptUrl
                      ELSE IF sv.secondUrl # 0 THEN sv.secondUrl ELSE sv.receiptUrl,
      quick_pay_group_id |-> 0,
      payment_type |-> "regular",
      notes |-> IF isSel THEN NotesOrNull(sv.notes) ELSE "null"]

\* applyUpdate that undoes the writes of the earlier slots when a write fails.
applyUpdateRollingBack(s) ==
  LET sv == save[s]
      u == sv.updates[sv.pos]
      pd == PlanRow(sv, u)
      isUpdate == u.existing # undefined
      inserted == InsertResult(store, <<pd>>, nextId)
      failed == IF isUpdate THEN ~(\E r \in store : r.id = u.existing.id)
                            ELSE inserted.error
      written == IF isUpdate
                 THEN TopUpRow(CHOOSE r \in store : r.id = u.existing.id,
                               u.newAmt, sv.date, pd.receipt_url, pd.notes)
                 ELSE CHOOSE r \in InsertedRows(<<pd>>, nextId) : TRUE
      newPayments == MapPut(sv.newPayments, u.key, written)
      callLog == Append(sv.calls, IF isUpdate THEN Call("update", u.existing.id)
                                              ELSE Call("insert", 1))
  IN
  /\ sv.pc = "writing"
  /\ IF failed
     THEN /\ last' = Ended(s, "save", sv.memberId, sv.parsedAmount, {sv.monthIndex},
                           "Error", callLog)
          /\ save' = [save EXCEPT ![s] = Idle]
          /\ store' = { r \in store :
                         \A j \in 1 .. sv.pos - 1 : RowKey(r) # sv.updates[j].key }
                      \cup { sv.updates[j].existing :
                               j \in { n \in 1 .. sv.pos - 1 :
                                         sv.updates[n].existing # undefined } }
          /\ UNCHANGED <<nextId, payments>>
     ELSE /\ store' = IF isUpdate
                      THEN { IF r.id = u.existing.id THEN written ELSE r : r \in store }
                      ELSE inserted.table
          /\ nextId' = IF isUpdate THEN nextId ELSE nextId + 1
          /\ IF sv.pos = Len(sv.updates)
             THEN /\ payments' = [payments EXCEPT ![s] = newPayments]
                  /\ last' = EndedWithReceipt(s, "save", sv.memberId, sv.parsedAmount,
                        {sv.monthIndex},
                        IF Len(sv.updates) > 1 THEN "Pago distribuido correctamente"
                                               ELSE "Pago guardado correctamente", callLog,
                        Receipt(sv.parsedAmount, sv.parsedAmount, 0))
                  /\ save' = [save EXCEPT ![s] = Idle]
             ELSE /\ save' = [save EXCEPT ![s] =
                        [sv EXCEPT !.pos = sv.pos + 1, !.newPayments = newPayments,
                                   !.calls = callLog]]
                  /\ UNCHANGED <<payments, last>>
  /\ UNCHANGED <<ops, selectedPayment, receipts>>

\* One iteration of `for (const u of updates)`: the write of the next plan
\* slot, with what follows it without a further await (the catch block on an
\* error, setPayments and the toast after the last slot).
applyUpdate(s) ==
  LET sv == save[s]
      u == sv.updates[sv.pos]
      pd == PlanRow(sv, u)
      isUpdate == u.existing # undefined
      inserted == InsertResult(store, <<pd>>, nextId)
      failed == IF isUpdate THEN ~(\E r \in store : r.id = u.existing.id)
                            ELSE inserted.error
      written == IF isUpdate
                 THEN TopUpRow(CHOOSE r \in store : r.id = u.existing.id,
                               u.newAmt, sv.date, pd.receipt_url, pd.notes)
                 ELSE CHOOSE r \in InsertedRows(<<pd>>, nextId) : TRUE
      newPayments == MapPut(sv.newPayments, u.key, written)
      callLog == Append(sv.calls, IF isUpdate THEN Call("update", u.existing.id)
                                              ELSE Call("insert", 1))
  IN
  /\ sv.pc = "writing"
  /\ IF failed
     THEN /\ last' = Ended(s, "save", sv.memberId, sv.parsedAmount, {sv.monthIndex},
                           "Error", callLog)
          /\ save' = [save EXCEPT ![s] = Idle]
          /\ UNCHANGED <<store, nextId, payments>>
     ELSE /\ store' = IF isUpdate
                      THEN { IF r.id = u.existing.id THEN written ELSE r : r \in store }
                      ELSE inserted.table
          /\ nextId' = IF isUpdate THEN nextId ELSE nextId + 1
          /\ IF sv.pos = Len(sv.updates)
             THEN /\ payments' = [payments EXCEPT ![s] = newPayments]
                  /\ last' = EndedWithReceipt(s, "save", sv.memberId, sv.parsedAmount,
                        {sv.monthIndex},
                        IF Len(sv.updates) > 1 THEN "Pago distribuido correctamente"
                                               ELSE "Pago guardado correctamente", callLog,
                        Receipt(sv.parsedAmount, sv.parsedAmount, 0))
                  /\ save' = [save EXCEPT ![s] = Idle]
             ELSE /\ save' = [save EXCEPT ![s] =
                        [sv EXCEPT !.pos = sv.pos + 1, !.newPayments = newPayments,
                                   !.calls = callLog]]
                  /\ UNCHANGED <<payments, last>>
  /\ UNCHANGED <<ops, selectedPayment, receipts>>

\* ------------------------------------------------------------ quick-pay
\* PendingFrom that also lists the months whose entry is below the fee.
RECURSIVE PendingFromUnpaid(_, _, _)
PendingFromUnpaid(pmap, memberId, lo) ==
  IF lo >= FiscalMonths THEN <<>>
  ELSE LET my == getMonthYear(lo)
           key == <<memberId, my.month, my.year>>
           rest == PendingFromUnpaid(pmap, memberId, lo + 1)
       IN IF Lookup(pmap, key) = undefined \/ Lookup(pmap, key).amount < memberFee
          THEN <<[month |-> my.month, year |-> my.year, monthIndex |-> lo]>> \o rest
          ELSE rest

\* currentYearPending: the fiscal indexes lo..11 without an entry in the
\* session's map, in fiscal order.
RECURSIVE PendingFrom(_, _, _)
PendingFrom(pmap, memberId, lo) ==
  IF lo >= FiscalMonths THEN <<>>
  ELSE LET my == getMonthYear(lo)
           key == <<memberId, my.month, my.year>>
           rest == PendingFrom(pmap, memberId, lo + 1)
       IN IF Lookup(pmap, key) = undefined
          THEN <<[month |-> my.month, year |-> my.year, monthIndex |-> lo]>> \o rest
          ELSE rest

currentYearPending(pmap, memberId) == PendingFrom(pmap, memberId, 0)

\* QuickPayRows that charges every pending month and gives none for free.
QuickPayRowsAllCharged(pending, memberId, parsedAmount, date, receiptUrl, groupId) ==
  [j \in 1 .. Len(pending) |->
     [member_id |-> memberId, month |-> pending[j].month,
      year |-> pending[j].year, amount |-> parsedAmount,
      paid_at |-> date, receipt_url |-> receiptUrl,
      quick_pay_group_id |-> groupId, payment_type |-> "pronto_pago",
      notes |-> "Pago registrado mediante Pronto Pago."]]

\* paymentsToInsert of handleQuickPay.
QuickPayRows(pending, memberId, parsedAmount, date, receiptUrl, groupId) ==
  LET monthsToPay == SubSeq(pending, 1, Min(Len(pending), QuickPayPaidMonths))
      hasFree == Len(pending) >= FiscalMonths
      paid == [j \in 1 .. Len(monthsToPay) |->
                 [member_id |-> memberId, month |-> monthsToPay[j].month,
                  year |-> monthsToPay[j].year, amount |-> parsedAmount,
                  paid_at |-> date, receipt_url |-> receiptUrl,
                  quick_pay_group_id |-> groupId, payment_type |-> "pronto_pago",
                  notes |-> "Pago registrado mediante Pronto Pago."]]
      free == [member_id |-> memberId, month |-> pending[FiscalMonths].month,
               year |-> pending[FiscalMonths].year, amount |-> 0,
               paid_at |-> date, receipt_url |-> receiptUrl,
               quick_pay_group_id |-> groupId, payment_type |-> "pronto_pago_benefit",
               notes |-> "Pago registrado mediante Pronto Pago."]
  IN IF hasFree THEN Append(paid, free) ELSE paid

\* parseFloat(quickPayAmount) for what the user may type.
QuickPayAmounts == {NaN, 0 - 1, 0, 1, memberFee}

\* The quick-pay dialog's date field and receipt file: filled or left empty.
QuickPayForms ==
  { [hasDate |-> TRUE, hasFile |-> TRUE], [hasDate |-> TRUE, hasFile |-> FALSE],
    [hasDate |-> FALSE, hasFile |-> TRUE], [hasDate |-> FALSE, hasFile |-> FALSE] }

\* QuickPayInvalid that lets a form without a payment date through.
QuickPayInvalidAmountOnly(parsedAmount, quickPayDate) ==
  Falsy(parsedAmount) \/ AtMostZero(parsedAmount)

\* The two validations at the head of handleQuickPay: the amount
\* (!parsedAmount || parsedAmount <= 0) and the date (!quickPayDate).
QuickPayInvalid(parsedAmount, quickPayDate) ==
  Falsy(parsedAmount) \/ AtMostZero(parsedAmount) \/ quickPayDate = 0

\* Confirmar Pronto Pago for member m (showQuickPay.memberId), with the typed
\* amount, a date typed or left empty, and an optional receipt file.
handleQuickPay(s, m, parsedAmount, form) ==
  LET op == ops + 1
      quickPayDate == IF form.hasDate THEN DateOf(op) ELSE 0
      receiptUrl == IF form.hasFile THEN UrlOf(op) ELSE 0
      pending == currentYearPending(payments[s], m)
      rows == QuickPayRows(pending, m, parsedAmount, quickPayDate, receiptUrl, GroupOf(op))
      insertLog == UploadCalls(form.hasFile) \o <<Call("insert", Len(rows))>>
      inserted == InsertResult(store, rows, nextId)
  IN
  /\ save[s].pc = "idle"
  /\ selectedPayment[s] = NoSelection
  /\ ops < MaxOps
  /\ ops' = op
  /\ IF QuickPayInvalid(parsedAmount, quickPayDate)
     THEN /\ last' = Ended(s, "quickPay", m, parsedAmount, {}, "Error", <<>>)
          /\ UNCHANGED <<store, nextId>>
     ELSE IF Len(pending) = 0
     THEN /\ last' = Ended(s, "quickPay", m, parsedAmount, {}, "Atencion", UploadCalls(form.hasFile))
          /\ UNCHANGED <<store, nextId>>
     ELSE IF inserted.error
     THEN /\ last' = Ended(s, "quickPay", m, parsedAmount, {}, "Error", insertLog)
          /\ UNCHANGED <<store, nextId>>
     ELSE /\ store' = inserted.table
          /\ nextId' = nextId + Len(rows)
          /\ last' = EndedWithReceipt(s, "quickPay", m, parsedAmount, {},
                         "Pronto Pago Registrado", insertLog,
                         LET totalPaid == parsedAmount * Min(Len(pending), QuickPayPaidMonths)
                         IN Receipt(totalPaid, totalPaid, 0))
  /\ UNCHANGED <<payments, selectedPayment, save, receipts>>

\* ---------------------------------------------------------- advance-pay
RECURSIVE Ascending(_)
Ascending(S) ==
  IF S = {} THEN <<>>
  ELSE LET lo == CHOOSE x \in S : \A y \in S : x <= y
       IN <<lo>> \o Ascending(S \ {lo})

AdvanceCells == {0, 1, 11}

\* The selections the advance-payment dialog lets the user submit: one or two
\* months that have no entry in the map the dialog was given.
SelectableMonths(pmap, memberId) ==
  { sel \in SUBSET AdvanceCells :
      /\ Cardinality(sel) \in 1 .. 2
      /\ \A i \in sel : Lookup(pmap, getPaymentKey(memberId, i)) = undefined }

\* AdvancePayRows with the last selected month free of charge.
AdvancePayRowsLastFree(selectedMonths, memberId, monthlyAmount, date, receiptUrl, groupId) ==
  [j \in 1 .. Len(selectedMonths) |->
     [member_id |-> memberId, month |-> selectedMonths[j].month,
      year |-> selectedMonths[j].year,
      amount |-> IF j = Len(selectedMonths) THEN 0 ELSE monthlyAmount,
      paid_at |-> date, receipt_url |-> receiptUrl,
      quick_pay_group_id |-> groupId, payment_type |-> "adelantado",
      notes |-> "Pago registrado mediante Pago por Adelantado."]]

\* AdvancePayRows with a discount on every month.
AdvancePayRowsDiscounted(selectedMonths, memberId, monthlyAmount, date, receiptUrl, groupId) ==
  [j \in 1 .. Len(selectedMonths) |->
     [member_id |-> memberId, month |-> selectedMonths[j].month,
      year |-> selectedMonths[j].year, amount |-> monthlyAmount - 1,
      paid_at |-> date, receipt_url |-> receiptUrl,
      quick_pay_group_id |-> groupId, payment_type |-> "adelantado",
      notes |-> "Pago registrado mediante Pago por Adelantado."]]

\* paymentsToInsert of handleAdvancePayment.
AdvancePayRows(selectedMonths, memberId, monthlyAmount, date, receiptUrl, groupId) ==
  [j \in 1 .. Len(selectedMonths) |->
     [member_id |-> memberId, month |-> selectedMonths[j].month,
      year |-> selectedMonths[j].year, amount |-> monthlyAmount,
      paid_at |-> date, receipt_url |-> receiptUrl,
      quick_pay_group_id |-> groupId, payment_type |-> "adelantado",
      notes |-> "Pago registrado mediante Pago por Adelantado."]]

\* The total the advance-payment dialog shows and passes as data.totalAmount:
\* the member's monthly amount for each selected month.
AdvanceDialogTotal(monthlyAmount, selectedMonths) ==
  monthlyAmount * Len(selectedMonths)

\* AdvanceDialogInvalid that lets a form without a payment date through.
AdvanceDialogInvalidEmptyOnly(sel, hasDate) == sel = {}

\* The advance-payment dialog does not submit an empty selection or a form
\* without a payment date.
AdvanceDialogInvalid(sel, hasDate) == sel = {} \/ ~hasDate

\* handleAdvancePayment(data) for member m (showAdvancePayment.memberId) with
\* the selected fiscal indexes sel.
handleAdvancePayment(s, m, sel, hasFile) ==
  LET op == ops + 1
      order == Ascending(sel)
      selectedMonths == [j \in 1 .. Len(order) |-> getMonthYear(order[j])]
      receiptUrl == IF hasFile THEN UrlOf(op) ELSE 0
      rows == AdvancePayRows(selectedMonths, m, memberFee, DateOf(op), receiptUrl, GroupOf(op))
      insertLog == UploadCalls(hasFile) \o <<Call("insert", Len(rows))>>
      inserted == InsertResult(store, rows, nextId)
  IN
  /\ save[s].pc = "idle"
  /\ selectedPayment[s] = NoSelection
  /\ ops < MaxOps
  /\ ops' = op
  /\ IF inserted.error
     THEN /\ last' = Ended(s, "advancePay", m, memberFee, sel, "Error", insertLog)
          /\ UNCHANGED <<store, nextId>>
     ELSE /\ store' = inserted.table
          /\ nextId' = nextId + Len(rows)
          /\ last' = EndedWithReceipt(s, "advancePay", m, memberFee, sel,
                         "Pago por Adelantado Registrado", insertLog,
                         LET totalAmount == AdvanceDialogTotal(memberFee, selectedMonths)
                         IN Receipt(totalAmount, totalAmount, 0))
  /\ UNCHANGED <<payments, selectedPayment, save, receipts>>

\* Registrar in the advance-payment dialog: the dialog's own validation of the form,
\* then onSubmit = handleAdvancePayment.
submitAdvancePayment(s, m, sel, hasDate, hasFile) ==
  IF AdvanceDialogInvalid(sel, hasDate)
  THEN /\ save[s].pc = "idle"
       /\ selectedPayment[s] = NoSelection
       /\ ops < MaxOps
       /\ ops' = ops + 1
       /\ last' = Ended(s, "advancePay", m, memberFee, sel, "Error", <<>>)
       /\ UNCHANGED <<store, nextId, payments, selectedPayment, save, receipts>>
  ELSE handleAdvancePayment(s, m, sel, hasFile)

\* ---------------------------------------------------------- specification
\* The treasurer working in one session (the usage the design assumes): both
\* members, three cells of the grid, every kind of operation.
Treasurer == CHOOSE s \in Sessions : \A t \in Sessions : s <= t
ClickCells == {0, 2, 11}
PaidAmounts == {0, 1, memberFee, memberFee + 1, MaxAmount}

Next ==
  \/ loadData(Treasurer)
  \/ \E m \in Members, i \in ClickCells : handleCellClick(Treasurer, m, i)
  \/ closeDialog(Treasurer)
  \/ \E amt \in PaidAmounts, form \in Forms : handleSavePayment(Treasurer, amt, form)
  \/ applyUpdate(Treasurer)
  \/ \E m \in Members, amt \in QuickPayAmounts, form \in QuickPayForms :
        handleQuickPay(Treasurer, m, amt, form)
  \/ \E m \in Members, hasDate \in BOOLEAN, hasFile \in BOOLEAN :
        \E sel \in SelectableMonths(payments[Treasurer], m) \cup {{}} :
           submitAdvancePayment(Treasurer, m, sel, hasDate, hasFile)

Spec == Init /\ [][Next]_vars

\* Two sessions on the ledger of one member, with fewer inputs each.
SharedMember == CHOOSE m \in Members : \A n \in Members : m <= n
SharedCells == {0, 1}
SharedAmounts == {1, memberFee + 1}
PlainForm == [notes |-> "", receiptFile |-> FALSE, secondReceiptFile |-> FALSE]
DatedForm == [hasDate |-> TRUE, hasFile |-> FALSE]

NextShared ==
  \/ \E s \in Sessions : loadData(s)
  \/ \E s \in Sessions, i \in SharedCells : handleCellClick(s, SharedMember, i)
  \/ \E s \in Sessions : closeDialog(s)
  \/ \E s \in Sessions, amt \in SharedAmounts : handleSavePayment(s, amt, PlainForm)
  \/ \E s \in Sessions : applyUpdate(s)
  \/ \E s \in Sessions : handleQuickPay(s, SharedMember, memberFee, DatedForm)
  \/ \E s \in Sessions :
        \E sel \in SelectableMonths(payments[s], SharedMember) :
           submitAdvancePayment(s, SharedMember, sel, TRUE, FALSE)

SharedSpec == Init /\ [][NextShared]_vars


\* Any ledger, one operation.  The ledger of LedgerMember is what a quick-pay
\* on an empty year left (or nothing), changed in up to two cells by later
\* edits, single payments or administrative deletions of a row; the other
\* member has one row.  The treasurer's page has just loaded it and runs one
\* handler on any of the 12 cells with any amount.
LedgerMember == CHOOSE m \in Members : \A n \in Members : m <= n
OtherMember == CHOOSE m \in Members : m # LedgerMember
InitialOps == MaxOps - 1
Backgrounds == {0, 1, memberFee}
PatchCells == {0, 1, 6, 10, 11}
Deleted == 0 - 999
PatchAmounts == {Deleted, 0, 1, memberFee + 1}

\* Rows of a quick-pay of perMonth on an empty year; none when perMonth = 0.
BackgroundRows(perMonth) ==
  IF perMonth = 0 THEN {}
  ELSE InsertedRows(
         QuickPayRows(currentYearPending(PaymentsMap({}), LedgerMember), LedgerMember,
                      perMonth, DateOf(InitialOps), UrlOf(InitialOps), GroupOf(InitialOps)),
         1)

\* A regular row as a single payment or an edit leaves it.
RegularRow(id, memberId, monthIndex, amt) ==
  [id |-> id, member_id |-> memberId, month |-> getMonthYear(monthIndex).month,
   year |-> getMonthYear(monthIndex).year, amount |-> amt,
   paid_at |-> DateOf(InitialOps), receipt_url |-> SecondUrlOf(InitialOps),
   quick_pay_group_id |-> 0, payment_type |-> "regular", notes |-> "nota"]

\* A row of LedgerMember for July of the fiscal year before the current one.
PriorYearRow ==
  [RegularRow(2 * FiscalMonths + 2, LedgerMember, 0, 1)
     EXCEPT !.year = currentCalendarYear - 1]

\* patch: a function from the changed cells to the amount of the regular row
\* now there, Deleted for a deleted row.  An edit stores whatever number was
\* typed: one cell may hold -1.
Patches ==
  UNION { [cells -> PatchAmounts] : cells \in {c \in SUBSET PatchCells : Cardinality(c) <= 2} }
  \cup { [c \in {i} |-> 0 - 1] : i \in PatchCells }

Ledger(perMonth, patch) ==
  { r \in BackgroundRows(perMonth) :
      \A i \in DOMAIN patch : RowKey(r) # getPaymentKey(LedgerMember, i) }
  \cup { RegularRow(FiscalMonths + i + 1, LedgerMember, i, patch[i]) :
           i \in {c \in DOMAIN patch : patch[c] # Deleted} }
  \cup { RegularRow(2 * FiscalMonths + 1, OtherMember, 0, 1), PriorYearRow }

InitLedger ==
  /\ \E perMonth \in Backgrounds, patch \in Patches : store = Ledger(perMonth, patch)
  /\ nextId = 2 * FiscalMonths + 3
  /\ ops = InitialOps
  /\ payments = [s \in Sessions |-> PaymentsMap(store)]
  /\ selectedPayment = [s \in Sessions |-> NoSelection]
  /\ save = [s \in Sessions |-> Idle]
  /\ last = NoRun
  /\ receipts = NoReceipts

\* parseFloat(amount) for what the user may type in the single-payment dialog.
SaveAmounts == {NaN, 0 - 1} \cup (0 .. MaxAmount)

NextLedger ==
  \/ \E i \in MonthIndexes : handleCellClick(Treasurer, LedgerMember, i)
  \/ \E amt \in SaveAmounts, form \in Forms : handleSavePayment(Treasurer, amt, form)
  \/ applyUpdate(Treasurer)
  \/ \E amt \in QuickPayAmounts, form \in QuickPayForms :
        handleQuickPay(Treasurer, LedgerMember, amt, form)
  \/ \E sel \in SelectableMonths(payments[Treasurer], LedgerMember) :
        submitAdvancePayment(Treasurer, LedgerMember, sel, TRUE, TRUE)

LedgerSpec == InitLedger /\ [][NextLedger]_vars

\* Any ledger, one bulk operation.  The ledger is as above, changed in up to
\* three of the cells BulkCells; one of its regular rows may have been written
\* by another session after the treasurer's page loaded, so that the page's
\* map lacks it.  The treasurer runs one quick-pay or one advance-pay.
BulkCells == {0, 1, 2, 11}

BulkPatches ==
  UNION { [cells -> PatchAmounts] : cells \in {c \in SUBSET BulkCells : Cardinality(c) <= 3} }

InitBulk ==
  /\ \E perMonth \in Backgrounds, patch \in BulkPatches : store = Ledger(perMonth, patch)
  /\ \E unseen \in SUBSET { r \in store : r.member_id = LedgerMember
                                           /\ r.payment_type = "regular"
                                           /\ r # PriorYearRow } :
       /\ Cardinality(unseen) <= 1
       /\ payments = [s \in Sessions |-> PaymentsMap(store \ unseen)]
  /\ nextId = 2 * FiscalMonths + 3
  /\ ops = InitialOps
  /\ selectedPayment = [s \in Sessions |-> NoSelection]
  /\ save = [s \in Sessions |-> Idle]
  /\ last = NoRun
  /\ receipts = NoReceipts

NextBulk ==
  \/ loadData(Treasurer)
  \/ \E amt \in QuickPayAmounts, form \in QuickPayForms :
        handleQuickPay(Treasurer, LedgerMember, amt, form)
  \/ \E hasDate \in BOOLEAN, hasFile \in BOOLEAN :
        \E sel \in SelectableMonths(payments[Treasurer], LedgerMember) \cup {{}} :
           submitAdvancePayment(Treasurer, LedgerMember, sel, hasDate, hasFile)

BulkSpec == InitBulk /\ [][NextBulk]_vars

\* Two sessions that have both loaded a ledger in which one month of a member
\* holds a partial entry, stored by an earlier run.
RaceCells == {0, 1}
RaceStoredAmounts == {0, 1}
RaceAmounts == {1, memberFee}
EarlierDate == DateOf(MaxOps + 1)

PartialRow(monthIndex, amt) ==
  [RegularRow(1, SharedMember, monthIndex, amt) EXCEPT !.paid_at = EarlierDate]

InitRace ==
  /\ \E i \in RaceCells, amt \in RaceStoredAmounts : store = {PartialRow(i, amt)}
  /\ nextId = 2
  /\ ops = 0
  /\ payments = [s \in Sessions |-> PaymentsMap(store)]
  /\ selectedPayment = [s \in Sessions |-> NoSelection]
  /\ save = [s \in Sessions |-> Idle]
  /\ last = NoRun
  /\ receipts = NoReceipts

NextRace ==
  \/ \E s \in Sessions : loadData(s)
  \/ \E s \in Sessions, i \in RaceCells : handleCellClick(s, SharedMember, i)
  \/ \E s \in Sessions : closeDialog(s)
  \/ \E s \in Sessions, amt \in RaceAmounts : handleSavePayment(s, amt, PlainForm)
  \/ \E s \in Sessions : applyUpdate(s)

RaceSpec == InitRace /\ [][NextRace]_vars

\* The receipt-number service on its own: the clock advances millisecond by
\* millisecond, and pages ask for the next number of a module; the rpc may
\* fail, and either version of the database function may be the deployed one.
ClockStarts == {0, ReceiptModulus - 1}
MaxReceipts == MaxOps + 1

Tick ==
  /\ receipts.elapsed < MaxOps
  /\ receipts' = [receipts EXCEPT !.now = @ + 1, !.elapsed = @ + 1]
  /\ UNCHANGED <<store, nextId, ops, payments, selectedPayment, save, last>>

getNextReceiptNumber(module, rpcError) ==
  LET counted == get_next_receipt_number_counter(module, receipts.counter)
      data == IF rpcError THEN FallbackReceiptNumber(module, receipts.now)
              ELSE IF receipts.deployed = "counter" THEN counted.text
              ELSE get_next_receipt_number(module, receipts.now)
  IN
  /\ Len(receipts.issued) < MaxReceipts
  /\ receipts' = [receipts EXCEPT
        !.counter = IF ~rpcError /\ receipts.deployed = "counter"
                    THEN counted.counter ELSE @,
        !.issued = Append(@, [module |-> module, text |-> data])]
  /\ UNCHANGED <<store, nextId, ops, payments, selectedPayment, save, last>>

InitReceipts ==
  /\ store = {}
  /\ nextId = 1
  /\ ops = 0
  /\ payments = [s \in Sessions |-> PaymentsMap({})]
  /\ selectedPayment = [s \in Sessions |-> NoSelection]
  /\ save = [s \in Sessions |-> Idle]
  /\ last = NoRun
  /\ \E d \in Deployments, t \in ClockStarts :
        receipts = [NoReceipts EXCEPT !.deployed = d, !.now = t]

NextReceipts ==
  \/ Tick
  \/ \E module \in Modules, rpcError \in BOOLEAN : getNextReceiptNumber(module, rpcError)

ReceiptSpec == InitReceipts /\ [][NextReceipts]_vars

\* One session recording new single payments only, for one member: the
\* ledgers such payments leave behind (the first months at the fee, then at
\* most one month paid in part, nothing after it), and two more payments.
SingleAmounts == {1, memberFee + 1, MaxAmount}
PaidUpLedger(full, part) ==
  { RegularRow(i + 1, LedgerMember, i, memberFee) : i \in 0 .. (full - 1) }
    \cup (IF part > 0 /\ full < FiscalMonths
          THEN {RegularRow(full + 1, LedgerMember, full, part)} ELSE {})

InitSingle ==
  /\ \E full \in 0 .. FiscalMonths, part \in 0 .. (memberFee - 1) :
        store = PaidUpLedger(full, part)
  /\ nextId = FiscalMonths + 1
  /\ ops = 0
  /\ payments = [s \in Sessions |-> PaymentsMap(store)]
  /\ selectedPayment = [s \in Sessions |-> NoSelection]
  /\ save = [s \in Sessions |-> Idle]
  /\ last = NoRun
  /\ receipts = NoReceipts

NextSingle ==
  \/ loadData(Treasurer)
  \/ \E i \in MonthIndexes : handleCellClick(Treasurer, LedgerMember, i)
  \/ closeDialog(Treasurer)
  \/ \E amt \in SingleAmounts :
        /\ selectedPayment[Treasurer] # NoSelection
        /\ selectedPayment[Treasurer].payment = undefined
        /\ handleSavePayment(Treasurer, amt, PlainForm)
  \/ applyUpdate(Treasurer)

SingleSpec == InitSingle /\ [][NextSingle]_vars

\* One session with the dialog on the first months of a member who has one
\* entry, paid in part or empty: the preview is rendered for the amount
\* typed, and Guardar saves it.
PreviewCells == {0, 1, 2}
TypedAmounts == {NaN, 0, 1, memberFee + 1, MaxAmount}

InitPreview ==
  /\ \E i \in PreviewCells, amt \in RaceStoredAmounts : store = {PartialRow(i, amt)}
  /\ nextId = 2
  /\ ops = 0
  /\ payments = [s \in Sessions |-> PaymentsMap(store)]
  /\ selectedPayment = [s \in Sessions |-> NoSelection]
  /\ save = [s \in Sessions |-> Idle]
  /\ last = NoRun
  /\ receipts = NoReceipts

NextPreview ==
  \/ \E i \in PreviewCells : handleCellClick(Treasurer, SharedMember, i)
  \/ closeDialog(Treasurer)
  \/ \E amt \in TypedAmounts, form \in Forms : handleSavePayment(Treasurer, amt, form)
  \/ applyUpdate(Treasurer)

PreviewSpec == InitPreview /\ [][NextPreview]_vars


\* ================================================================ claims
\* Amount a map holds for a key, 0 when the slot has no entry.
SlotAmount(pmap, key) ==
  IF Lookup(pmap, key) = undefined THEN 0 ELSE Lookup(pmap, key).amount

IsBenefit(pmap, key) ==
  Lookup(pmap, key) # undefined /\ Lookup(pmap, key).payment_type = "pronto_pago_benefit"

\* Deficit of one fiscal slot: the fee for an absent slot, nothing for a
\* benefit entry, what is missing to the fee otherwise.
SlotDeficit(pmap, memberId, fee, i) ==
  LET key == getPaymentKey(memberId, i)
  IN IF Lookup(pmap, key) = undefined THEN fee
     ELSE IF IsBenefit(pmap, key) THEN 0
     ELSE Max(0, fee - Lookup(pmap, key).amount)

TotalDeficit(pmap, memberId, fee) ==
  SumSeq([j \in 1 .. FiscalMonths |-> SlotDeficit(pmap, memberId, fee, j - 1)])

\* Money each plan slot receives: resulting amount minus snapshot amount.
PlanDeltas(sv) ==
  [j \in 1 .. Len(sv.updates) |->
     sv.updates[j].newAmt - SlotAmount(sv.snapshot, sv.updates[j].key)]

\* A save of a new single payment with a positive lump sum has computed its
\* plan from a snapshot in which the target slot is absent.
NewPaymentPlanned(s) ==
  /\ save[s].pc = "writing"
  /\ save[s].parsedAmount > 0
  /\ Lookup(save[s].snapshot, getPaymentKey(save[s].memberId, save[s].monthIndex)) = undefined

\* C1  Conservation: the per-slot deltas of the plan of a new single payment
\* with lump sum L > 0 add up to min(L, D), D the total deficit of the 12
\* fiscal slots in the snapshot, and no slot whose snapshot amount is already
\* at least the fee is in the plan.
C1_Conservation ==
  \A s \in Sessions :
    NewPaymentPlanned(s) =>
      /\ SumSeq(PlanDeltas(save[s])) =
           Min(save[s].parsedAmount,
               TotalDeficit(save[s].snapshot, save[s].memberId, memberFee))
      /\ \A j \in 1 .. Len(save[s].updates) :
           SlotAmount(save[s].snapshot, save[s].updates[j].key) < memberFee

\* A lump sum above the total deficit, spread over several slots.
C1_Witness ==
  \E s \in Sessions :
    /\ NewPaymentPlanned(s)
    /\ save[s].parsedAmount > TotalDeficit(save[s].snapshot, save[s].memberId, memberFee)
    /\ Len(save[s].updates) >= 2


\* ---- C2: the reference greedy allocation, by prefix sums of capacities.
\* What slot i can take: the fee for the target t, nothing for a benefit
\* entry or an entry at or above the fee, the deficit otherwise.
RefCapacity(pmap, memberId, fee, t, i) ==
  LET key == getPaymentKey(memberId, i)
  IN IF i = t THEN fee
     ELSE IF IsBenefit(pmap, key) THEN 0
     ELSE IF Lookup(pmap, key) # undefined /\ Lookup(pmap, key).amount >= fee THEN 0
     ELSE fee - SlotAmount(pmap, key)

\* What the greedy gives slot i: the indexes are visited in ascending order
\* (0..t-1, then t, then t+1..11), each taking what is left up to its capacity.
RefShare(pmap, memberId, fee, t, lump, i) ==
  Min(RefCapacity(pmap, memberId, fee, t, i),
      Max(0, lump - SumSeq([j \in 1 .. i |-> RefCapacity(pmap, memberId, fee, t, j - 1)])))

RefPlan(pmap, memberId, fee, t, lump) ==
  LET served == Ascending({i \in MonthIndexes : RefShare(pmap, memberId, fee, t, lump, i) > 0})
  IN [j \in 1 .. Len(served) |->
        [key |-> getPaymentKey(memberId, served[j]),
         newAmt |-> RefShare(pmap, memberId, fee, t, lump, served[j])
                    + (IF served[j] = t THEN 0
                       ELSE SlotAmount(pmap, getPaymentKey(memberId, served[j])))]]

\* A plan as the list of its slots and resulting amounts.
PlanView(updates) ==
  [j \in 1 .. Len(updates) |-> [key |-> updates[j].key, newAmt |-> updates[j].newAmt]]

\* {index: amount, ...} as a plan view for member 1.
Slot(i, amt) == [key |-> getPaymentKey(1, i), newAmt |-> amt]

\* A map holding one regular row per index of cellsAmounts (index -> amount).
MapOf(cellsAmounts) ==
  PaymentsMap({ RegularRow(i + 1, 1, i, cellsAmounts[i]) : i \in DOMAIN cellsAmounts })

\* Fee 50, empty ledger, lump 120 on index 0.
C2_ExampleEmpty ==
  PlanView(ComputeUpdates(PaymentsMap({}), 1, 50, 0, 120).updates)
    = <<Slot(0, 50), Slot(1, 50), Slot(2, 20)>>

\* Fee 50, index 0 holds 30, index 1 is fully paid, lump 25 on index 2.
C2_ExamplePartialPaidBetween ==
  PlanView(ComputeUpdates(MapOf((0 :> 30) @@ (1 :> 50)), 1, 50, 2, 25).updates)
    = <<Slot(0, 50), Slot(2, 5)>>

\* Fee 50, index 0 holds 30 and is the only entry, lump 25 on index 2: the
\* empty index 1 is older than the target and takes the remainder.
C2_ExamplePartialEmptyBetween ==
  PlanView(ComputeUpdates(MapOf(0 :> 30), 1, 50, 2, 25).updates)
    = <<Slot(0, 50), Slot(1, 5)>>

C2_PlanIsGreedy ==
  \A s \in Sessions :
    NewPaymentPlanned(s) =>
      PlanView(save[s].updates) =
        RefPlan(save[s].snapshot, save[s].memberId, memberFee,
                save[s].monthIndex, save[s].parsedAmount)

\* C2 (amended)  The plan of a new single payment is the reference greedy
\* allocation: indexes 0..t-1 ascending (skipping benefit slots and slots at
\* or above the fee) each get min(remaining, fee - existing), then the target
\* gets min(remaining, fee), then t+1..11 likewise, until nothing remains.
\* Fee 50, empty ledger, lump 120 on index 0 gives {0:50, 1:50, 2:20}; index
\* 0 = 30, index 1 fully paid, lump 25 on index 2 gives {0:50, 2:5}, and with
\* index 1 empty it gives {0:50, 1:5}.
C2_GreedyPlan ==
  /\ C2_PlanIsGreedy
  /\ C2_ExampleEmpty
  /\ C2_ExamplePartialPaidBetween
  /\ C2_ExamplePartialEmptyBetween

\* The snapshot holds one entry of the member, a partial one on index 0, and
\* a lump of its deficit plus less than a fee is paid on index 2.
OnlyFirstPartial(s) ==
  LET sv == save[s]
      first == Lookup(sv.snapshot, getPaymentKey(sv.memberId, 0))
  IN /\ NewPaymentPlanned(s)
     /\ sv.monthIndex = 2
     /\ first # undefined /\ first.payment_type = "regular"
     /\ first.amount > 0 /\ first.amount < memberFee
     /\ \A i \in MonthIndexes \ {0} :
          Lookup(sv.snapshot, getPaymentKey(sv.memberId, i)) = undefined
     /\ sv.parsedAmount > memberFee - first.amount
     /\ sv.parsedAmount < 2 * memberFee - first.amount

\* C2 as stated: the greedy rule, with the second example read as written
\* (only index 0 has an entry): the plan is index 0 filled to the fee and the
\* rest on the target index 2.
C2_Original ==
  /\ C2_PlanIsGreedy
  /\ C2_ExampleEmpty
  /\ \A s \in Sessions :
       OnlyFirstPartial(s) =>
         PlanView(save[s].updates) =
           <<[key |-> getPaymentKey(save[s].memberId, 0), newAmt |-> memberFee],
             [key |-> getPaymentKey(save[s].memberId, 2),
              newAmt |-> save[s].parsedAmount
                         - (memberFee - SlotAmount(save[s].snapshot,
                                                   getPaymentKey(save[s].memberId, 0)))]>>

\* A plan with a top-up before the target, the target and a slot after it.
C2_Witness ==
  \E s \in Sessions :
    /\ NewPaymentPlanned(s)
    /\ Len(save[s].updates) = 3
    /\ save[s].updates[1].existing # undefined
    /\ save[s].updates[2].key = getPaymentKey(save[s].memberId, save[s].monthIndex)

\* ---- C3
PriorUnpaid(sv) ==
  { i \in MonthIndexes :
      i < sv.monthIndex /\ SlotDeficit(sv.snapshot, sv.memberId, memberFee, i) > 0 }

\* Position of the plan entry for fiscal index i, 0 when i is not in the plan.
PlanPos(sv, i) ==
  IF \E j \in 1 .. Len(sv.updates) : sv.updates[j].key = getPaymentKey(sv.memberId, i)
  THEN CHOOSE j \in 1 .. Len(sv.updates) : sv.updates[j].key = getPaymentKey(sv.memberId, i)
  ELSE 0

BackfillCase(s) ==
  /\ NewPaymentPlanned(s)
  /\ Cardinality(PriorUnpaid(save[s])) >= 2
  /\ save[s].parsedAmount > memberFee

\* C3  Backfill-first: when at least two months before the target are unpaid
\* and the lump exceeds one fee, the target receives money only after every
\* prior unpaid month has received a non-zero allocation (its plan entry comes
\* earlier and raises its amount), and the target then gets no more than what
\* is left of the lump after those allocations.
C3_BackfillFirst ==
  \A s \in Sessions :
    BackfillCase(s) =>
      LET sv == save[s]
          tpos == PlanPos(sv, sv.monthIndex)
          deltas == PlanDeltas(sv)
      IN /\ \A i \in PriorUnpaid(sv) :
              /\ tpos > 0 => (PlanPos(sv, i) > 0 /\ PlanPos(sv, i) < tpos)
              /\ PlanPos(sv, i) > 0 => deltas[PlanPos(sv, i)] > 0
         /\ tpos > 0 =>
              sv.updates[tpos].newAmt =
                Min(memberFee,
                    sv.parsedAmount - SumSeq([j \in 1 .. tpos - 1 |-> deltas[j]]))
         /\ \E i \in PriorUnpaid(sv) : PlanPos(sv, i) = 1

\* The target is reached after two or more older months were served.
C3_Witness ==
  \E s \in Sessions :
    /\ BackfillCase(s)
    /\ PlanPos(save[s], save[s].monthIndex) >= 3

\* ---- C4
\* A handler run ended in the error toast after the store rejected its insert.
InsertRejected ==
  /\ last.toast = "Error"
  /\ Len(last.calls) > 0
  /\ last.calls[Len(last.calls)].call = "insert"

\* C4  At most one ledger entry per (member, month, year), in every state
\* reached by any interleaving of single-payment saves, quick-pays and
\* advance-pays of two sessions.
C4_OneEntryPerSlot ==
  \A r1, r2 \in store : RowKey(r1) = RowKey(r2) => r1 = r2

\* Two sessions raced for a slot: one created the entry, the other's insert
\* for the same slot was rejected.
C4_Witness ==
  /\ InsertRejected
  /\ \E r \in store : r.member_id = last.member /\ r.paid_at # 0
  /\ \E s \in Sessions : s # last.session /\ payments[s] # PaymentsMap({})

\* ---- C5
\* The map without the entry under key.
MapWithout(pmap, key) == [k \in DOMAIN pmap \ {key} |-> pmap[k]]

BenefitKeys(pmap) == { k \in DOMAIN pmap : pmap[k].payment_type = "pronto_pago_benefit" }

\* A regular entry on the slot of key that covers the fee.
PaidInFull(key) ==
  [id |-> 0, member_id |-> key[1], month |-> key[2], year |-> key[3],
   amount |-> memberFee, paid_at |-> 0, receipt_url |-> 0, quick_pay_group_id |-> 0,
   payment_type |-> "regular", notes |-> "null"]

\* C5  A pronto_pago_benefit entry has amount 0; it adds nothing to the
\* member's outstanding total (the total is what it would be with the month
\* paid in full) and nothing to the accumulated total (the total is what it
\* is without the entry); and no plan of a new single payment names the slot
\* of a benefit entry of its snapshot.
C5_BenefitIsFree ==
  /\ \A r \in store : r.payment_type = "pronto_pago_benefit" => r.amount = 0
  /\ \A s \in Sessions : \A k \in BenefitKeys(payments[s]) :
       /\ payments[s][k].amount = 0
       /\ totalAdeudado(payments[s], k[1], memberFee)
            = totalAdeudado(MapPut(payments[s], k, PaidInFull(k)), k[1], memberFee)
       /\ accumulatedTotal(payments[s], k[1])
            = accumulatedTotal(MapWithout(payments[s], k), k[1])
  /\ \A s \in Sessions :
       NewPaymentPlanned(s) =>
         \A j \in 1 .. Len(save[s].updates) :
           ~IsBenefit(save[s].snapshot, save[s].updates[j].key)

\* All writes of a plan are done whose lump sum exceeded the deficit of a
\* year that holds a benefit entry: the scan went past the benefit slot.
C5_Witness ==
  /\ last.handler = "save"
  /\ last.toast \in {"Pago guardado correctamente", "Pago distribuido correctamente"}
  /\ \E j \in 1 .. Len(last.calls) : last.calls[j].call = "insert"
  /\ last.amount > memberFee
  /\ \E k \in BenefitKeys(payments[last.session]) : k[1] = last.member
  /\ totalAdeudado(payments[last.session], last.member, memberFee) = 0

\* ---- C6
IsLedgerCall(c) == c.call \in {"insert", "update", "delete"}

\* The calls of a log that go to the monthly_payments table.
LedgerCalls(calls) == SelectSeq(calls, IsLedgerCall)

\* C6  Edit frame: a save on a dialog opened on an existing entry issues
\* exactly one update, by that entry's id; no entry is created, no other
\* entry is changed, and no distribution is started.
C6_EditFrame ==
  [][ \A s \in Sessions, amt \in 0 .. MaxAmount, form \in Forms :
        ( /\ selectedPayment[s] # NoSelection
          /\ selectedPayment[s].payment # undefined
          /\ handleSavePayment(s, amt, form) )
        => LET id == selectedPayment[s].payment.id
           IN /\ LedgerCalls(last'.calls) = <<Call("update", id)>>
              /\ \A r \in store : r.id # id => r \in store'
              /\ \A r \in store' : r.id # id => r \in store
              /\ \A r \in store' : r.id = id =>
                   /\ r.amount = amt
                   /\ \E q \in store : q.id = id /\ RowKey(q) = RowKey(r)
              /\ save' = save
              /\ nextId' = nextId ]_vars

\* An entry was edited to more than the fee while other months of the member
\* were still owed: a distribution would have touched them.
C6_Witness ==
  /\ last.handler = "edit"
  /\ last.amount > memberFee
  /\ totalAdeudado(payments[last.session], last.member, memberFee) >= memberFee
  /\ \E r \in store : r.member_id = last.member /\ r.amount = last.amount
  /\ \E r \in store : r.member_id = last.member /\ r.amount # last.amount /\ r.amount > 0

\* ---- C7
\* The fiscal indexes of a member without an entry in a map.
AbsentSlots(pmap, memberId) ==
  { i \in MonthIndexes : getPaymentKey(memberId, i) \notin DOMAIN pmap }

\* The rows a step added to the table.
Created == store' \ store

\* The step is handleQuickPay(s, m, A, form); what the run left in `last` is
\* compared first.
QuickPayStep(s, m, A, form) ==
  /\ last'.session = s /\ last'.member = m /\ last'.amount = A
  /\ handleQuickPay(s, m, A, form)

\* The step is handleAdvancePayment(s, m, sel, hasFile).
AdvancePayStep(s, m, sel, hasFile) ==
  /\ last'.session = s /\ last'.member = m /\ last'.cells = sel
  /\ handleAdvancePayment(s, m, sel, hasFile)

\* C7  A successful quick-pay of per-month amount A for a member with k
\* absent slots creates an entry of amount A on each of the first min(k, 11)
\* absent slots in fiscal order, a zero-amount benefit entry on the 12th
\* exactly when k = 12, and nothing else; the created entries share one group
\* id, payment date and receipt reference.  (k = 12: 11 paid + 1 benefit;
\* indexes 0, 1, 2 occupied: 9 entries, no benefit.)
C7_QuickPayResult ==
  [][ \A s \in Sessions, m \in Members, A \in QuickPayAmounts, form \in QuickPayForms :
        ( QuickPayStep(s, m, A, form) /\ last'.toast = "Pronto Pago Registrado" )
        => LET absent == Ascending(AbsentSlots(payments[s], m))
               k == Len(absent)
           IN /\ k >= 1
              /\ Cardinality(Created) = IF k = FiscalMonths THEN FiscalMonths ELSE k
              /\ \A j \in 1 .. Min(k, 11) :
                   \E r \in Created :
                     /\ RowKey(r) = getPaymentKey(m, absent[j])
                     /\ r.amount = A
                     /\ r.payment_type = "pronto_pago"
              /\ k = 12 => \E r \in Created :
                             /\ RowKey(r) = getPaymentKey(m, absent[12])
                             /\ r.amount = 0
                             /\ r.payment_type = "pronto_pago_benefit"
              /\ k < 12 => \A r \in Created : r.payment_type # "pronto_pago_benefit"
              /\ AbsentSlots(payments[s], m) = 3 .. 11 =>
                   Cardinality(Created) = 9 /\ \A r \in Created : r.amount = A
              /\ \A r1, r2 \in Created :
                   /\ r1.quick_pay_group_id = r2.quick_pay_group_id
                   /\ r1.quick_pay_group_id # 0
                   /\ r1.paid_at = r2.paid_at
                   /\ r1.receipt_url = r2.receipt_url
              /\ \A r \in Created : \A q \in store :
                   q.quick_pay_group_id # r.quick_pay_group_id ]_vars

\* The rows of the batch the last quick-pay created.
LastQuickPayRows ==
  { r \in store : r.payment_type \in {"pronto_pago", "pronto_pago_benefit"}
                  /\ r.member_id = last.member /\ r.quick_pay_group_id = ops }

\* A quick-pay on a year whose indexes 0, 1 and 2 were occupied created 9
\* entries.
C7_Witness ==
  /\ last.handler = "quickPay"
  /\ last.toast = "Pronto Pago Registrado"
  /\ Cardinality(LastQuickPayRows) = 9
  /\ \A i \in 0 .. 2 : \E r \in store \ LastQuickPayRows :
       RowKey(r) = getPaymentKey(last.member, i)

\* ---- C8
\* C8  Quick-pay frame: a quick-pay, whatever its outcome, leaves every
\* existing entry as it was, the partial entries of the same member included.
C8_QuickPayFrame ==
  [][ \A s \in Sessions, m \in Members, A \in QuickPayAmounts, form \in QuickPayForms :
        QuickPayStep(s, m, A, form) => \A r \in store : r \in store' ]_vars

\* A quick-pay succeeded for a member who keeps a partial entry.
C8_Witness ==
  /\ last.handler = "quickPay"
  /\ last.toast = "Pronto Pago Registrado"
  /\ \E r \in store :
       /\ r.member_id = last.member /\ r.payment_type = "regular"
       /\ r.amount > 0 /\ r.amount < memberFee
  /\ \E r \in store : r.member_id = last.member /\ r.payment_type = "pronto_pago"

C10_AdvancePayResult ==
  [][ \A s \in Sessions, m \in Members, hasFile \in BOOLEAN :
        \A sel \in SelectableMonths(payments[s], m) :
          ( /\ AdvancePayStep(s, m, sel, hasFile)
            /\ \A i \in sel : \A q \in store : RowKey(q) # getPaymentKey(m, i) )
          => /\ last'.toast = "Pago por Adelantado Registrado"
             /\ Cardinality(Created) = Cardinality(sel)
             /\ \A i \in sel : \E r \in Created :
                  /\ RowKey(r) = getPaymentKey(m, i)
                  /\ r.amount = memberFee
                  /\ r.payment_type = "adelantado"
             /\ \A r \in Created : r.amount # 0
             /\ \A r1, r2 \in Created :
                  /\ r1.quick_pay_group_id = r2.quick_pay_group_id
                  /\ r1.quick_pay_group_id # 0
                  /\ r1.paid_at = r2.paid_at
                  /\ r1.receipt_url = r2.receipt_url
             /\ \A r \in store : r \in store' ]_vars

\* Two months were paid in advance in one batch.
C10_Witness ==
  /\ last.handler = "advancePay"
  /\ last.toast = "Pago por Adelantado Registrado"
  /\ Cardinality(last.cells) = 2
  /\ \A i \in last.cells : \E r \in store :
       /\ RowKey(r) = getPaymentKey(last.member, i)
       /\ r.payment_type = "adelantado" /\ r.quick_pay_group_id = ops


\* ---- C11
\* Sum of the amounts of a set of rows.
RECURSIVE SumRows(_)
SumRows(rows) ==
  IF rows = {} THEN 0
  ELSE LET r == CHOOSE x \in rows : TRUE
       IN r.amount + SumRows(rows \ {r})

AdvanceSubmitStep(s, m, sel, hasDate, hasFile) ==
  /\ last'.session = s /\ last'.member = m /\ last'.cells = sel
  /\ submitAdvancePayment(s, m, sel, hasDate, hasFile)

\* C14  Advance-pay validation: an advance-pay submitted with an empty
\* selection of months, or without a payment date, is rejected before any
\* store call (no upload, no insert) and leaves the ledger unchanged.
C14_AdvanceValidation ==
  [][ \A s \in Sessions, m \in Members, hasDate \in BOOLEAN, hasFile \in BOOLEAN :
        \A sel \in SelectableMonths(payments[s], m) \cup {{}} :
          ( /\ AdvanceSubmitStep(s, m, sel, hasDate, hasFile)
            /\ (sel = {} \/ ~hasDate) )
          => /\ store' = store
             /\ nextId' = nextId
             /\ last'.calls = <<>>
             /\ last'.toast = "Error"
             /\ ~last'.receipt.issued ]_vars

\* An advance-pay of two selected months without a date was rejected with a
\* receipt file attached or not; the months are still absent.
C14_Witness ==
  /\ last.handler = "advancePay"
  /\ last.toast = "Error"
  /\ last.calls = <<>>
  /\ Cardinality(last.cells) = 2
  /\ \A i \in last.cells : \A r \in store : RowKey(r) # getPaymentKey(last.member, i)

\* ---- C12
\* C12  Single-payment validation: a save whose amount is not a number or is
\* at most 0 is rejected as a validation error before any store call: it
\* shows the error, issues no upload, no insert and no update, starts no
\* distribution and leaves the ledger unchanged, whether the dialog was
\* opened on an empty slot or on an existing entry.
C12_SaveValidation ==
  [][ \A s \in Sessions, parsed \in SaveAmounts, form \in Forms :
        ( /\ selectedPayment[s] # NoSelection
          /\ Falsy(parsed) \/ AtMostZero(parsed)
          /\ handleSavePayment(s, parsed, form) )
        => /\ store' = store
           /\ save' = save
           /\ last'.toast = "Error"
           /\ last'.calls = <<>> ]_vars

\* ---- C13
\* C13  Quick-pay validation: a quick-pay whose per-month amount is not a
\* number or is at most 0, or whose payment date is missing, is rejected with
\* an error before any store call: no receipt upload, no insert, no receipt,
\* and the ledger is unchanged.
C13_QuickPayValidation ==
  [][ \A s \in Sessions, m \in Members, A \in QuickPayAmounts, form \in QuickPayForms :
        ( /\ QuickPayStep(s, m, A, form)
          /\ Falsy(A) \/ AtMostZero(A) \/ ~form.hasDate )
        => /\ store' = store
           /\ nextId' = nextId
           /\ last'.calls = <<>>
           /\ last'.toast = "Error"
           /\ ~last'.receipt.issued ]_vars

\* A quick-pay with an unparsable amount was rejected for a member who has
\* months without an entry.
C13_Witness ==
  /\ last.handler = "quickPay"
  /\ last.amount = NaN
  /\ last.toast = "Error"
  /\ last.calls = <<>>
  /\ AbsentSlots(PaymentsMap(store), last.member) # {}

\* ---- C15
\* The 12 (month, year) pairs of the fiscal window: July to December of the
\* current calendar year, January to June of the next.
FiscalWindow ==
  { [month |-> mo, year |-> currentCalendarYear] : mo \in 7 .. 12 }
  \cup { [month |-> mo, year |-> nextCalendarYear] : mo \in 1 .. 6 }

\* C15  Fiscal calendar: the dialog opened on fiscal index i carries
\* (i+7, currentCalendarYear) for i in 0..5 and (i-5, nextCalendarYear) for
\* i in 6..11; the mapping is a bijection from the 12 indexes onto the 12
\* pairs of the fiscal window; the ledger key derived for index i names the
\* same (month, year), so that an entry found under it is of that month.
C15_FiscalCalendar ==
  \A s \in Sessions :
    selectedPayment[s] # NoSelection =>
      LET sel == selectedPayment[s]
          i == sel.monthIndex
          my == [month |-> sel.month, year |-> sel.year]
      IN /\ i \in 0 .. 5 => my = [month |-> i + 7, year |-> currentCalendarYear]
         /\ i \in 6 .. 11 => my = [month |-> i - 5, year |-> nextCalendarYear]
         /\ my \in FiscalWindow
         /\ \A j \in MonthIndexes : getMonthYear(j) = my => j = i
         /\ { getMonthYear(j) : j \in MonthIndexes } = FiscalWindow
         /\ getPaymentKey(sel.memberId, i) = <<sel.memberId, sel.month, sel.year>>
         /\ sel.payment # undefined =>
              /\ sel.payment.month = sel.month
              /\ sel.payment.year = sel.year
              /\ sel.payment.member_id = sel.memberId

\* The dialog is open on the last fiscal index, June of the next calendar
\* year, and shows the entry stored for that month.
C15_Witness ==
  \E s \in Sessions :
    /\ selectedPayment[s] # NoSelection
    /\ selectedPayment[s].monthIndex = 11
    /\ selectedPayment[s].month = 6
    /\ selectedPayment[s].year = nextCalendarYear
    /\ selectedPayment[s].payment # undefined

\* ---- C16
\* C16  Outstanding balance: for every member and every map of entries, the
\* amount owed shown on the page is the sum over the 12 fiscal slots of
\* max(0, fee - amount), an absent slot counting as the fee and a benefit slot
\* as 0; it is never negative, and it is 0 exactly when every slot is a
\* benefit slot or holds at least the fee.
C16_OutstandingBalance ==
  \A s \in Sessions, m \in Members :
    LET pmap == payments[s]
        owed == totalAdeudado(pmap, m, memberFee)
    IN /\ owed = TotalDeficit(pmap, m, memberFee)
       /\ owed >= 0
       /\ owed = 0 <=>
            \A i \in MonthIndexes :
              \/ IsBenefit(pmap, getPaymentKey(m, i))
              \/ /\ Lookup(pmap, getPaymentKey(m, i)) # undefined
                 /\ Lookup(pmap, getPaymentKey(m, i)).amount >= memberFee

\* Nothing is owed by a member whose year holds a benefit entry and an entry
\* above the fee.
C16_Witness ==
  \E s \in Sessions, m \in Members :
    /\ totalAdeudado(payments[s], m, memberFee) = 0
    /\ \E i \in MonthIndexes : IsBenefit(payments[s], getPaymentKey(m, i))
    /\ \E i \in MonthIndexes : SlotAmount(payments[s], getPaymentKey(m, i)) > memberFee

\* ---- C17
\* The entries of a map.
Entries(pmap) == { pmap[k] : k \in DOMAIN pmap }

\* C17  Accumulated paid: for every member m and every map of entries, the
\* accumulated total shown for m is the sum of the amounts of exactly the
\* entries whose member reference is m, of every year, benefit entries
\* excluded; the entries of other members do not contribute.
C17_AccumulatedPaid ==
  \A s \in Sessions, m \in Members :
    accumulatedTotal(payments[s], m)
      = SumRows({ p \in Entries(payments[s]) :
                    p.member_id = m /\ p.payment_type # "pronto_pago_benefit" })

\* The map holds entries of both members, one of an earlier year and a
\* benefit entry among them.
C17_Witness ==
  \E s \in Sessions :
    /\ \E p \in Entries(payments[s]) : p.member_id = OtherMember /\ p.amount > 0
    /\ \E p \in Entries(payments[s]) :
         p.member_id = LedgerMember /\ p.year < currentCalendarYear /\ p.amount > 0
    /\ \E p \in Entries(payments[s]) :
         p.member_id = LedgerMember /\ p.payment_type = "pronto_pago_benefit"
    /\ accumulatedTotal(payments[s], LedgerMember) > memberFee

\* ---- C18
\* The step is one write of the running save of session s.
WriteStep(s) == save[s].pc = "writing" /\ applyUpdate(s)

\* C18  Monotone top-up: a write of a new single payment's plan deletes no
\* entry and lowers no entry's amount; a plan slot that has an existing
\* entry carries an amount strictly greater than the entry's snapshot amount,
\* and that amount is what the entry holds after the write.
C18_MonotoneTopUp ==
  [][ \A s \in Sessions :
        WriteStep(s) =>
          LET sv == save[s]
              u == sv.updates[sv.pos]
          IN /\ \A r \in store : \E q \in store' :
                   q.id = r.id /\ RowKey(q) = RowKey(r) /\ q.amount >= r.amount
             /\ u.existing # undefined =>
                   /\ u.existing = Lookup(sv.snapshot, u.key)
                   /\ u.newAmt > SlotAmount(sv.snapshot, u.key)
                   /\ \E q \in store' : /\ q.id = u.existing.id
                                         /\ q.amount = u.newAmt
                                         /\ q.amount > SlotAmount(sv.snapshot, u.key) ]_vars

\* A distributed payment ended after topping up a partial entry, which now
\* holds the fee.
C18_Witness ==
  /\ last.handler = "save"
  /\ last.toast = "Pago distribuido correctamente"
  /\ \E j \in 1 .. Len(last.calls) :
       /\ last.calls[j].call = "update"
       /\ \E r \in store : /\ r.id = last.calls[j].arg
                            /\ r.amount = memberFee
                            /\ r.paid_at = DateOf(ops)

\* ---- C19
\* The fiscal indexes a plan may give money to: slots without entry and
\* entries below the fee that are not benefit entries.
EligibleSlots(pmap, memberId) ==
  { i \in MonthIndexes : SlotDeficit(pmap, memberId, memberFee, i) > 0 }

\* C19  Excess is dropped and the fee is a cap: every amount a plan write
\* stores is greater than 0 and at most the fee, on a slot of the member's
\* 12-slot window; and when the lump sum exceeds the total deficit of the 12
\* slots, after the last write every eligible slot holds exactly the fee.
C19_ExcessDropped ==
  [][ \A s \in Sessions :
        WriteStep(s) =>
          LET sv == save[s]
              u == sv.updates[sv.pos]
          IN /\ u.newAmt > 0
             /\ u.newAmt <= memberFee
             /\ \E i \in MonthIndexes : u.key = getPaymentKey(sv.memberId, i)
             /\ \A r \in store' : r \in store \/ (RowKey(r) = u.key /\ r.amount = u.newAmt)
             /\ ( /\ sv.parsedAmount > TotalDeficit(sv.snapshot, sv.memberId, memberFee)
                  /\ sv.pos = Len(sv.updates)
                  /\ last'.toast # "Error" )
                => \A i \in EligibleSlots(sv.snapshot, sv.memberId) :
                     \E r \in store' : /\ RowKey(r) = getPaymentKey(sv.memberId, i)
                                        /\ r.amount = memberFee ]_vars

\* ---- C20
\* Place of fiscal index i in the order of a plan for target t: the months
\* before the target ascending, the target, the months after it ascending.
PlanRank(t, i) ==
  IF i < t THEN i ELSE IF i = t THEN FiscalMonths ELSE FiscalMonths + i

\* The fiscal index of a key of the member's 12-slot window.
IndexOfKey(memberId, key) ==
  CHOOSE i \in MonthIndexes : getPaymentKey(memberId, i) = key

\* The call that writes a plan slot.
SlotCall(u) ==
  IF u.existing # undefined THEN Call("update", u.existing.id) ELSE Call("insert", 1)

\* C20  Partial application without rollback: the slots of a plan are in the
\* order backfill ascending, target, overflow ascending, and are written one
\* at a time in that order, each write changing the table; when the write of
\* the k-th slot fails, the store is left as the writes of slots 1..k-1 made
\* it, no further slot is written (the save ends) and the error is shown.
C20_PartialApplication ==
  [][ \A s \in Sessions :
        WriteStep(s) =>
          LET sv == save[s]
              k == sv.pos
              u == sv.updates[k]
              made == LedgerCalls(sv.calls)
          IN /\ \A j \in 1 .. Len(sv.updates) - 1 :
                   PlanRank(sv.monthIndex, IndexOfKey(sv.memberId, sv.updates[j].key))
                     < PlanRank(sv.monthIndex, IndexOfKey(sv.memberId, sv.updates[j + 1].key))
             /\ made = [j \in 1 .. k - 1 |-> SlotCall(sv.updates[j])]
             /\ \A j \in 1 .. k - 1 : \E r \in store : RowKey(r) = sv.updates[j].key
             /\ IF store' = store
                THEN /\ nextId' = nextId
                     /\ save'[s] = Idle
                     /\ last'.toast = "Error"
                     /\ last'.session = s
                     /\ LedgerCalls(last'.calls) = Append(made, SlotCall(u))
                ELSE /\ \E r \in store' : /\ RowKey(r) = u.key /\ r.amount = u.newAmt
                                           /\ r \notin store
                     /\ \A r \in store' : r \in store \/ RowKey(r) = u.key
                     /\ k < Len(sv.updates) =>
                           save'[s].pc = "writing" /\ save'[s].pos = k + 1 ]_vars

\* A save failed at its second slot: its first slot's entry is in the table,
\* dated by that save, next to the entry another session created since.
C20_Witness ==
  /\ last.handler = "save"
  /\ last.toast = "Error"
  /\ Len(LedgerCalls(last.calls)) = 2
  /\ \E r1, r2 \in store : /\ r1.member_id = last.member
                             /\ r2.member_id = last.member
                             /\ r1.paid_at < r2.paid_at
                             /\ r2.paid_at = DateOf(ops)

\* ---- C21
\* C21  Cancellation: opening the single-payment dialog on a cell and closing
\* it again, whatever was typed in between, issues no write: a step that
\* opens or closes a dialog leaves the table, the id counter and the record
\* of issued calls as they were and starts no save; the ledger changes only
\* in steps of a save, a quick-pay or an advance-pay.
C21_Cancellation ==
  [][ /\ \A s \in Sessions :
           ( /\ selectedPayment'[s] # selectedPayment[s]
             /\ \/ \E m \in Members, i \in MonthIndexes : handleCellClick(s, m, i)
                \/ closeDialog(s) )
           => /\ store' = store
              /\ nextId' = nextId
              /\ ops' = ops
              /\ save' = save
              /\ last' = last
      /\ store' # store => ops' = ops + 1 \/ \E s \in Sessions : save[s].pc = "writing"
    ]_vars

\* A session has its dialog open on a stored entry, no other dialog is open
\* and no handler has run: the table holds the entry as it was loaded.
C21_Witness ==
  \E s \in Sessions :
    /\ selectedPayment[s] # NoSelection
    /\ selectedPayment[s].payment # undefined
    /\ selectedPayment[s].payment \in store
    /\ \A t \in Sessions \ {s} : selectedPayment[t] = NoSelection
    /\ last = NoRun
    /\ ops = 0

\* ---- C22
\* The rows stored under a key.
RowsOfKey(table, key) == { r \in table : RowKey(r) = key }

\* C22  Concurrent creation conflict: when a save writes a slot for which the
\* dialog or the session's snapshot showed no entry it issues an insert; if no entry of that slot
\* is stored the insert creates the one entry of the slot, and if another
\* session has created the slot since the snapshot the insert fails, the save
\* ends with the error, and the winner's entry stays in the table as it was.
C22_CreationConflict ==
  [][ \A s \in Sessions :
        (WriteStep(s) /\ save[s].updates[save[s].pos].existing = undefined) =>
          LET sv == save[s]
              u == sv.updates[sv.pos]
              before == RowsOfKey(store, u.key)
              after == RowsOfKey(store', u.key)
          IN IF before # {}
             THEN /\ after = before
                  /\ store' = store
                  /\ last'.session = s
                  /\ last'.toast = "Error"
                  /\ last'.calls[Len(last'.calls)] = Call("insert", 1)
                  /\ save'[s] = Idle
             ELSE /\ Cardinality(after) = 1
                  /\ \A r \in after : r.amount = u.newAmt /\ r.paid_at = sv.date
                  /\ store \subseteq store' ]_vars

\* Two single payments raced for one absent slot: the first write of the
\* loser's plan was the rejected insert, the slot holds the entry the other
\* session's save created, and the loser's map still has no entry for it.
C22_Witness ==
  /\ InsertRejected
  /\ last.handler = "save"
  /\ Len(LedgerCalls(last.calls)) = 1
  /\ \E i \in last.cells :
       LET key == getPaymentKey(last.member, i)
       IN /\ Lookup(payments[last.session], key) = undefined
          /\ \E r \in RowsOfKey(store, key) :
                /\ r.payment_type = "regular"
                /\ r.quick_pay_group_id = 0
                /\ r.paid_at # 0
                /\ r.paid_at < DateOf(ops)

\* ---- C23
\* C23  Lost update: a top-up is written without re-reading the store, as the
\* absolute amount computed from the entry the session saw (its amount plus
\* the money applied); when another session has raised the stored amount
\* since, the amount after the write is less than the stored amount plus the
\* money applied, i.e. it reflects one session's money only.  The write is
\* an update of the one row of the slot: no second row appears.
C23_LostUpdate ==
  [][ \A s \in Sessions :
        ( /\ WriteStep(s)
          /\ save[s].updates[save[s].pos].existing # undefined
          /\ \E r \in store : r.id = save[s].updates[save[s].pos].existing.id ) =>
          LET sv == save[s]
              u == sv.updates[sv.pos]
              cur == CHOOSE r \in store : r.id = u.existing.id
              delta == u.newAmt - u.existing.amount
              new == CHOOSE r \in store' : r.id = u.existing.id
          IN /\ delta > 0
             /\ new.amount = u.existing.amount + delta
             /\ cur.amount > u.existing.amount => new.amount < cur.amount + delta
             /\ RowsOfKey(store', u.key) = {new}
             /\ nextId' = nextId ]_vars

\* Two sessions topped up one partial entry from the same snapshot: the
\* second save updated the row another session's save had raised before, and
\* the stored amount is less than that earlier amount plus the money paid.
C23_Witness ==
  /\ last.handler = "save"
  /\ last.toast = "Pago guardado correctamente"
  /\ Len(LedgerCalls(last.calls)) = 1
  /\ last.calls[Len(last.calls)].call = "update"
  /\ \E r \in store, s1 \in Sessions \ {last.session} :
       LET p1 == Lookup(payments[s1], RowKey(r))
           p2 == Lookup(payments[last.session], RowKey(r))
       IN /\ p2 = r
          /\ p1 # undefined
          /\ p1.id = r.id
          /\ p1.paid_at \notin {r.paid_at, EarlierDate}
          /\ r.amount < p1.amount + last.amount
          /\ RowsOfKey(store, RowKey(r)) = {r}

\* ---- C24
\* C24  Receipt numbering: of any two numbers the service has handed out for
\* one module, the later one is a different text and carries a number
\* strictly above the earlier one.
C24_ReceiptNumbering ==
  \A i, j \in 1 .. Len(receipts.issued) :
    (i < j /\ receipts.issued[i].module = receipts.issued[j].module) =>
      /\ receipts.issued[j].text # receipts.issued[i].text
      /\ receipts.issued[j].text.number > receipts.issued[i].text.number

\* ---- C25
\* The amount stored for a fiscal index of a member, 0 when it has no entry.
StoredAmount(memberId, i) ==
  SumRows(RowsOfKey(store, getPaymentKey(memberId, i)))

\* C25  Oldest-first over sequences: with nothing but new single payments of
\* one session recorded for a member, in every state (also between two writes
\* of a plan) each month that holds a positive amount is preceded in fiscal
\* order only by months that hold exactly the fee.
C25_OldestFirst ==
  \A i \in MonthIndexes :
    StoredAmount(LedgerMember, i) > 0 =>
      \A j \in 0 .. (i - 1) : StoredAmount(LedgerMember, j) = memberFee

\* A payment recorded on a later month was spread: it completed the month
\* paid in part, filled the next one and left the rest on a third.
C25_Witness ==
  /\ last.handler = "save"
  /\ last.toast = "Pago distribuido correctamente"
  /\ ops = MaxOps
  /\ \E i \in MonthIndexes :
       /\ i >= 2
       /\ StoredAmount(LedgerMember, i) > 0
       /\ StoredAmount(LedgerMember, i) < memberFee
       /\ \A j \in {i - 2, i - 1, i} :
             \E r \in RowsOfKey(store, getPaymentKey(LedgerMember, j)) :
                r.paid_at = DateOf(ops)

\* ---- C26
\* The step is a quick-pay or an advance-pay of session s that got as far as
\* the ledger table.
BulkStep(s) ==
  /\ ops' = ops + 1
  /\ last'.session = s
  /\ last'.handler \in {"quickPay", "advancePay"}
  /\ LedgerCalls(last'.calls) # <<>>
  /\ \/ \E form \in QuickPayForms : handleQuickPay(s, last'.member, last'.amount, form)
     \/ \E hasFile \in BOOLEAN : handleAdvancePayment(s, last'.member, last'.cells, hasFile)

\* The slots the invocation asks the table to create.
RequestedKeys(s) ==
  IF last'.handler = "quickPay"
  THEN { getPaymentKey(last'.member, i) : i \in AbsentSlots(payments[s], last'.member) }
  ELSE { getPaymentKey(last'.member, i) : i \in last'.cells }

\* C26  Bulk strategies are all-or-nothing: a quick-pay or an advance-pay
\* issues one insert for all its entries; when an entry of one of the
\* requested slots is stored already, none of the entries is created, the
\* ledger is unchanged and the error is shown; otherwise every requested
\* slot is created.
C26_BulkAllOrNothing ==
  [][ \A s \in Sessions :
        BulkStep(s) =>
          LET req == RequestedKeys(s)
          IN /\ LedgerCalls(last'.calls) = <<Call("insert", Cardinality(req))>>
             /\ IF \E r \in store : RowKey(r) \in req
                THEN /\ store' = store
                     /\ nextId' = nextId
                     /\ last'.toast = "Error"
                ELSE /\ store \subseteq store'
                     /\ { RowKey(r) : r \in Created } = req
                     /\ Cardinality(Created) = Cardinality(req) ]_vars

\* A quick-pay asked for all 12 months from a map that had not seen the
\* entry another session created: the insert of 12 rows was rejected, and
\* the 11 months without a conflict have no entry either.
C26_Witness ==
  /\ last.handler = "quickPay"
  /\ InsertRejected
  /\ last.calls[Len(last.calls)].arg = FiscalMonths
  /\ ops = MaxOps
  /\ Cardinality(store) = 1
  /\ \A r \in store : r.member_id = last.member /\ r.paid_at < DateOf(ops)

\* ---- C27
\* The step is the last write of a save of session s, and it succeeded.
LastWriteStep(s) ==
  /\ save[s].pc = "writing"
  /\ save[s].pos = Len(save[s].updates)
  /\ store' # store
  /\ applyUpdate(s)

\* C27  Receipt matches ledger: when a new single payment has been saved, the
\* amountPaid of the receipt data it prepares equals the money the payment
\* applied to the ledger, i.e. the sum of the per-slot deltas of its plan.
C27_ReceiptMatchesLedger ==
  [][ \A s \in Sessions :
        LastWriteStep(s) =>
          /\ last'.receipt.issued
          /\ last'.receipt.amountPaid = SumSeq(PlanDeltas(save[s])) ]_vars

\* ---- C28
\* The preview a running save's dialog showed for the amount being saved.
PreviewOfSave(s) ==
  distributionInfo(selectedPayment[s], save[s].snapshot, memberFee, save[s].parsedAmount)

\* Slot j of the plan lies before the selected month.
IsBackfill(sv, j) == IndexOfKey(sv.memberId, sv.updates[j].key) < sv.monthIndex

\* The preview names the slots of the plan, in the plan's order.
SameSlots(prev, plan) ==
  /\ Len(prev) = Len(plan)
  /\ \A j \in 1 .. Len(plan) :
        prev[j].month = plan[j].month /\ prev[j].year = plan[j].year

\* The amounts typed into an open dialog that are compared with the preview.
PreviewAmounts == TypedAmounts \cup {0 - 1, memberFee}

\* The preview is shown exactly when the plan has more than one slot, for a
\* running save and for every amount typed into a dialog on an empty month.
ShownIffDistributed ==
  \A s \in Sessions :
    /\ save[s].pc = "writing" =>
          (PreviewOfSave(s) # NoPreview <=> Len(save[s].updates) > 1)
    /\ (selectedPayment[s] # NoSelection /\ selectedPayment[s].payment = undefined) =>
          \A amt \in PreviewAmounts :
            distributionInfo(selectedPayment[s], payments[s], memberFee, amt) # NoPreview
              <=> Len(ComputeUpdates(payments[s], selectedPayment[s].memberId, memberFee,
                                     selectedPayment[s].monthIndex, OrZero(amt)).updates) > 1

\* The second receipt file is uploaded, and its URL used, only by a save
\* whose preview was shown.
SecondReceiptOnlyIfShown ==
  \A s \in Sessions :
    (save[s].pc = "writing" /\ save[s].secondUrl # 0) => PreviewOfSave(s) # NoPreview

\* C28 as stated: the preview lists the slots of the plan in the plan's
\* order, each with the money the plan applies to it, and is shown exactly
\* when the plan has more than one slot.
C28_Original ==
  /\ ShownIffDistributed
  /\ SecondReceiptOnlyIfShown
  /\ \A s \in Sessions :
       (save[s].pc = "writing" /\ PreviewOfSave(s) # NoPreview) =>
         /\ SameSlots(PreviewOfSave(s), save[s].updates)
         /\ \A j \in 1 .. Len(save[s].updates) :
               PreviewOfSave(s)[j].shown = PlanDeltas(save[s])[j]

\* C28 (amended)  The preview lists the slots of the plan in the plan's
\* order; for a month before the selected one it prints the money applied
\* ("+"), for the selected month and the months after it the amount the
\* month will hold, which is the amount the plan writes.  It is shown, and
\* the second receipt offered, exactly when the plan has more than one slot,
\* and the second receipt is used only then.
C28_PreviewAgrees ==
  /\ ShownIffDistributed
  /\ SecondReceiptOnlyIfShown
  /\ \A s \in Sessions :
       (save[s].pc = "writing" /\ PreviewOfSave(s) # NoPreview) =>
         /\ SameSlots(PreviewOfSave(s), save[s].updates)
         /\ \A j \in 1 .. Len(save[s].updates) :
               LET line == PreviewOfSave(s)[j]
               IN IF IsBackfill(save[s], j)
                  THEN line.plus /\ line.shown = PlanDeltas(save[s])[j]
                  ELSE ~line.plus /\ line.shown = save[s].updates[j].newAmt

\* A save with a second receipt is running whose preview showed, after the
\* selected month, a month that held a partial entry: the line printed the
\* amount the month will hold, which is more than the money applied to it.
C28_Witness ==
  \E s \in Sessions :
    /\ save[s].pc = "writing"
    /\ Len(PreviewOfSave(s)) >= 2
    /\ \E j \in 1 .. Len(save[s].updates) :
         /\ ~IsBackfill(save[s], j)
         /\ save[s].updates[j].existing # undefined
         /\ PreviewOfSave(s)[j].shown > PlanDeltas(save[s])[j]
    /\ save[s].secondUrl # 0

\* ---- C29
\* The running save of session s was started from a dialog that showed no
\* entry for its month although the session's map already held one: a
\* second Guardar in the dialog of a payment that has been saved.
RepeatedSave(s) ==
  /\ save[s].pc = "writing"
  /\ getPaymentKey(save[s].memberId, save[s].monthIndex) \in DOMAIN save[s].snapshot

\* C29  No double application on repeated save: a save repeated in the dialog
\* of a new payment that has created its month plans the insert of that
\* month as its first write; the insert is rejected, the save ends with the
\* error after that one call and the ledger is as it was.
C29_NoDoubleApplication ==
  [][ \A s \in Sessions :
        (RepeatedSave(s) /\ WriteStep(s)) =>
          LET sv == save[s]
              u == sv.updates[sv.pos]
          IN /\ sv.pos = 1
             /\ u.key = getPaymentKey(sv.memberId, sv.monthIndex)
             /\ u.existing = undefined
             /\ store' = store
             /\ nextId' = nextId
             /\ save'[s] = Idle
             /\ last'.toast = "Error"
             /\ LedgerCalls(last'.calls) = <<Call("insert", 1)>> ]_vars

\* The second save in a dialog failed on its only call: the dialog is still
\* open on the month, which holds the entry the first save created.
C29_Witness ==
  /\ InsertRejected
  /\ last.handler = "save"
  /\ Len(LedgerCalls(last.calls)) = 1
  /\ ops = MaxOps
  /\ LET sel == selectedPayment[last.session]
     IN /\ sel # NoSelection
        /\ sel.payment = undefined
        /\ last.cells = {sel.monthIndex}
        /\ \E r \in RowsOfKey(store, getPaymentKey(sel.memberId, sel.monthIndex)) :
              /\ r.paid_at = DateOf(ops - 1)
              /\ Lookup(payments[last.session], RowKey(r)) = r

\* ---- C30
\* C30  Top-up frame: the write of a plan slot that has an entry changes, of
\* that entry, the amount (to the plan's amount), the payment date (to the
\* date of the new payment), the receipt reference (to the second receipt,
\* else the first, else none) and the note (to none); its type tag, its
\* group id, its key and its id stay as they were, no other entry is
\* touched and none is created.
C30_TopUpFrame ==
  [][ \A s \in Sessions :
        ( /\ WriteStep(s)
          /\ save[s].updates[save[s].pos].existing # undefined
          /\ store' # store ) =>
          LET sv == save[s]
              u == sv.updates[sv.pos]
              old == CHOOSE r \in store : r.id = u.existing.id
              new == CHOOSE r \in store' : r.id = u.existing.id
          IN /\ u.key # getPaymentKey(sv.memberId, sv.monthIndex)
             /\ new = [old EXCEPT
                         !.amount = u.newAmt,
                         !.paid_at = sv.date,
                         !.receipt_url = IF sv.secondUrl # 0 THEN sv.secondUrl
                                         ELSE sv.receiptUrl,
                         !.notes = "null"]
             /\ new.payment_type = old.payment_type
             /\ new.quick_pay_group_id = old.quick_pay_group_id
             /\ store' \ {new} = store \ {old}
             /\ nextId' = nextId ]_vars

\* A new payment has topped up an entry a quick-pay had created: the entry
\* is still of type pronto_pago and in its group, at the fee, dated by the
\* new payment and without a note.
C30_Witness ==
  /\ last.handler = "save"
  /\ ops = MaxOps
  /\ \E r \in store :
       /\ r.member_id = last.member
       /\ r.payment_type = "pronto_pago"
       /\ r.quick_pay_group_id = GroupOf(InitialOps)
       /\ r.amount = memberFee
       /\ r.paid_at = DateOf(MaxOps)
       /\ r.notes = "null"

====
